------------------------------ MODULE AcpRelay ------------------------------
(***************************************************************************)
(* One ACP session between an IDE and the agent process on the host, after *)
(* relayClient and RelayHost (src/client/internal/direct/relay.go), the    *)
(* JSON-RPC guard (src/client/internal/wire/acp.go), process.Run and the   *)
(* keep-alive of ServeHTTP (server.go).                                    *)
(*                                                                         *)
(* Each goroutine is a set of actions.  A line is its JSON-RPC id: a       *)
(* request on the way up, a response on the way down.  Notifications pass  *)
(* without touching any state and are left out.  The IDE, the agent, the   *)
(* connection and the parents' deadlines are the environment.              *)
(***************************************************************************)
EXTENDS Naturals, Sequences, FiniteSets, Functions

CONSTANTS
    Ids,         \* the request ids the IDE uses
    MaxLines,    \* lines the IDE sends in this instance
    MaxAnswers,  \* lines the agent writes in this instance
    Buffer       \* lines a pipe or the connection holds before a writer blocks

ASSUME RelayAssumption ==
    /\ IsFiniteSet(Ids) /\ Ids # {} /\ Ids \cap {"end", "run", "exit 0", "exit 1", "exit 130"} = {}
    /\ MaxLines \in Nat /\ MaxAnswers \in Nat /\ Buffer \in Nat \ {0}

VARIABLES
    conn,       \* "open", who closed it ("client", "host", "lost"), or "silent"
    up,         \* frames from the client to the host
    down,       \* frames from the host to the client
    ideEof,     \* the IDE closed the client's stdin
    ideReads,   \* the IDE still reads the client's stdout
    asked,      \* requests the client's guard accepted, by id
    answered,   \* responses the IDE got, by id
    clientPend, \* pending[0] of the client's guard
    sent,       \* the client's sending goroutine: "run", "eof" or "error"
    received,   \* the client's receiving goroutine: "run", "ok" or "error"
    client,     \* relayClient: "run", "ok" or "error"
    late,       \* requests accepted after the receiving goroutine was done
    hostCtx,    \* the context of RelayHost: "live" or "cancelled"
    hostPend,   \* pending[0] of the host's guard
    stdin,      \* lines in the agent's stdin
    stdout,     \* lines in the agent's stdout
    incoming,   \* the host's incoming goroutine: "run", "eof" or "error"
    outgoing,   \* the host's outgoing goroutine: "run", "eof" or "error"
    child,      \* the agent: "run" or its exit code
    writes,     \* lines the agent has written
    loop,       \* what the loop of RelayHost has seen
    host        \* RelayHost: "run", "wait" (for the child), "ok" or "error"

clientVars == <<clientPend, sent, received, client, late>>
ideVars == <<ideEof, ideReads, asked, answered>>
hostVars == <<hostCtx, hostPend, stdin, stdout, incoming, outgoing, child, writes, loop, host>>
relayVars == <<conn, up, down, clientVars, ideVars, hostVars>>

Exits == {"exit 0", "exit 1", "exit 130"}
Frames == Ids \cup {"end"}
Replies == Ids \cup Exits
Nothing == [i \in Ids |-> 0]
Lines == FoldFunction(+, 0, asked)
Returned == {"ok", "error"}

(* A closed connection fails a read; a silent one only never delivers. *)
Closed == {"client", "host", "lost"}

RelayTypeOK ==
    /\ conn \in {"open", "silent"} \cup Closed
    /\ up \in Seq(Frames) /\ down \in Seq(Replies)
    /\ ideEof \in BOOLEAN /\ ideReads \in BOOLEAN
    /\ asked \in [Ids -> 0 .. MaxLines] /\ answered \in [Ids -> 0 .. MaxAnswers]
    /\ clientPend \subseteq Ids /\ hostPend \subseteq Ids
    /\ sent \in {"run", "eof", "error"} /\ received \in {"run", "ok", "error"}
    /\ client \in {"run"} \cup Returned /\ late \subseteq Ids
    /\ hostCtx \in {"live", "cancelled"}
    /\ stdin \in Seq(Ids) /\ Len(stdin) <= Buffer
    /\ stdout \in Seq(Ids) /\ Len(stdout) <= Buffer
    /\ incoming \in {"run", "eof", "error"} /\ outgoing \in {"run", "eof", "error"}
    /\ child \in {"run"} \cup Exits /\ writes \in 0 .. MaxAnswers
    /\ loop \in [child : BOOLEAN, output : BOOLEAN, input : BOOLEAN]
    /\ host \in {"run", "wait"} \cup Returned

RelayInit ==
    /\ conn = "open" /\ up = <<>> /\ down = <<>>
    /\ ideEof = FALSE /\ ideReads = TRUE
    /\ asked = Nothing /\ answered = Nothing
    /\ clientPend = {} /\ sent = "run" /\ received = "run" /\ client = "run"
    /\ late = {}
    /\ hostCtx = "live" /\ hostPend = {} /\ stdin = <<>> /\ stdout = <<>>
    /\ incoming = "run" /\ outgoing = "run" /\ child = "run" /\ writes = 0
    /\ loop = [child |-> FALSE, output |-> FALSE, input |-> FALSE]
    /\ host = "run"

-----------------------------------------------------------------------------
(* The guard. *)

(* A request is new to the pending requests of its direction (Validate). *)
ValidRequest(pending, id) == id \notin pending

(* A response answers a pending request of the other direction (Validate). *)
ValidResponse(pending, id) == id \in pending

-----------------------------------------------------------------------------
(* relayClient. *)

(* Forward: the sending goroutine takes a line of the IDE.  A duplicate, a   *)
(* closed connection or a write that stays blocked ends it with an error; on *)
(* a silent connection the frame is lost, until the socket's buffer is full. *)
ClientForward(id) ==
    /\ sent = "run" /\ client = "run" /\ ~ideEof /\ Lines < MaxLines
    /\ IF ValidRequest(clientPend, id)
       THEN /\ clientPend' = clientPend \cup {id}
            /\ asked' = [asked EXCEPT ![id] = @ + 1]
            /\ late' = IF received = "run" THEN late ELSE late \cup {id}
            /\ \/ conn = "open" /\ Len(up) < Buffer /\ up' = Append(up, id) /\ sent' = sent
               \/ conn = "silent" /\ up' = up /\ sent' = sent
               \/ (conn # "open" \/ Len(up) >= Buffer) /\ up' = up /\ sent' = "error"
       ELSE sent' = "error" /\ UNCHANGED <<clientPend, asked, late, up>>
    /\ UNCHANGED <<conn, down, ideEof, ideReads, answered, received, client, hostVars>>

(* Mutant of ClientEnd: the goroutine stops without sending End. *)
ClientEndSilent ==
    /\ sent = "run" /\ client = "run" /\ ideEof
    /\ sent' = "eof"
    /\ UNCHANGED <<conn, up, down, ideVars, clientPend, received, client, late, hostVars>>

(* Forward returns nil at EOF and the goroutine sends End. *)
ClientEnd ==
    /\ sent = "run" /\ client = "run" /\ ideEof
    /\ \/ conn = "open" /\ up' = Append(up, "end") /\ sent' = "eof"
       \/ conn = "silent" /\ up' = up /\ sent' = "eof"
       \/ conn # "open" /\ sent' = "error" /\ up' = up
    /\ UNCHANGED <<conn, down, ideVars, clientPend, received, client, late, hostVars>>

(* Mutant of ExitVerdict: pending requests are not counted. *)
ExitVerdictOfCode(code) == IF code = "exit 0" THEN "ok" ELSE "error"

(* The verdict of the receiving goroutine on an Exit frame. *)
ExitVerdict(code) == IF code = "exit 0" /\ clientPend = {} THEN "ok" ELSE "error"

(* The receiving goroutine: data is validated and written to the IDE, Exit   *)
(* is judged, a closed connection is an error.  Frames that had arrived      *)
(* before the loss may still be read.  The read has no deadline and nothing  *)
(* pings from this end: a silent connection is never noticed.                *)
ClientReceive ==
    /\ received = "run" /\ client = "run"
    /\ \/ /\ down # <<>> /\ Head(down) \in Ids
          /\ IF ValidResponse(clientPend, Head(down))
             THEN /\ ideReads
                  /\ clientPend' = clientPend \ {Head(down)}
                  /\ answered' = [answered EXCEPT ![Head(down)] = @ + 1]
                  /\ UNCHANGED received
             ELSE received' = "error" /\ UNCHANGED <<clientPend, answered>>
          /\ down' = Tail(down)
       \/ /\ down # <<>> /\ Head(down) \notin Ids
          /\ received' = ExitVerdict(Head(down))
          /\ down' = Tail(down)
          /\ UNCHANGED <<clientPend, answered>>
       \/ /\ conn \in Closed /\ received' = "error"
          /\ UNCHANGED <<clientPend, answered, down>>
    /\ UNCHANGED <<conn, up, ideEof, ideReads, asked, sent, client, late, hostVars>>

(* The write to an IDE that has gone fails: the guard has taken the response *)
(* for answered by then, and the goroutine ends with the error.              *)
ClientWriteFails ==
    /\ received = "run" /\ client = "run" /\ ~ideReads
    /\ down # <<>> /\ Head(down) \in Ids /\ ValidResponse(clientPend, Head(down))
    /\ clientPend' = clientPend \ {Head(down)} /\ down' = Tail(down)
    /\ received' = "error"
    /\ UNCHANGED <<conn, up, ideVars, sent, client, late, hostVars>>

(* The deferred cancel, close and wg.Wait: both goroutines end and nothing   *)
(* reads the connection any more.                                            *)
ClientCloses(verdict) ==
    /\ client' = verdict /\ down' = <<>> /\ clientPend' = {}
    /\ sent' = IF sent = "run" THEN "error" ELSE sent
    /\ received' = IF received = "run" THEN "error" ELSE received
    /\ conn' = IF conn = "open" THEN "client" ELSE conn
    /\ UNCHANGED <<up, ideVars, late, hostVars>>

(* The select of relayClient. *)
ClientReturn ==
    /\ client = "run"
    /\ \/ sent = "error" /\ ClientCloses("error")
       \/ received # "run" /\ ClientCloses(received)

(* The IDE ends the client (signal): ctx.Done. *)
ClientInterrupted == client = "run" /\ ClientCloses("error")

-----------------------------------------------------------------------------
(* RelayHost. *)

(* Cancelling the context closes the session, the agent's stdin and the      *)
(* read end of its stdout (context.AfterFunc): what they hold is never read. *)
Cancel ==
    /\ hostCtx' = "cancelled" /\ up' = <<>> /\ stdin' = <<>> /\ stdout' = <<>> /\ hostPend' = {}
    /\ conn' = IF conn = "open" THEN "host" ELSE conn

(* sessionReader and Forward: the incoming goroutine. *)
HostIncoming ==
    /\ incoming = "run" /\ host = "run"
    /\ \/ /\ hostCtx = "live" /\ up # <<>> /\ Head(up) \in Ids
          /\ IF ValidRequest(hostPend, Head(up))
             THEN /\ Len(stdin) < Buffer /\ hostPend' = hostPend \cup {Head(up)}
                  /\ stdin' = Append(stdin, Head(up)) /\ incoming' = incoming
             ELSE incoming' = "error" /\ UNCHANGED <<hostPend, stdin>>
          /\ up' = Tail(up)
       \/ /\ hostCtx = "live" /\ up # <<>> /\ Head(up) = "end"
          /\ incoming' = "eof" /\ up' = Tail(up) /\ UNCHANGED <<hostPend, stdin>>
       \/ /\ hostCtx = "cancelled" \/ conn \in Closed
          /\ incoming' = "error" /\ UNCHANGED <<up, hostPend, stdin>>
    /\ UNCHANGED <<conn, down, ideVars, clientVars, hostCtx, stdout, outgoing, child, writes, loop, host>>

(* Forward and sessionWriter: the outgoing goroutine drains the agent's      *)
(* stdout; a frame that cannot be written in time is an error.               *)
HostOutgoing ==
    /\ outgoing = "run" /\ host = "run"
    /\ \/ /\ hostCtx = "live" /\ stdout # <<>>
          /\ stdout' = Tail(stdout)
          /\ IF ValidResponse(hostPend, Head(stdout))
             THEN /\ hostPend' = hostPend \ {Head(stdout)}
                  /\ \/ conn = "open" /\ Len(down) < Buffer
                        /\ down' = Append(down, Head(stdout)) /\ outgoing' = outgoing
                     \/ conn = "silent" /\ down' = down /\ outgoing' = outgoing
                     \/ (conn # "open" \/ Len(down) >= Buffer)
                        /\ outgoing' = "error" /\ down' = down
             ELSE outgoing' = "error" /\ UNCHANGED <<hostPend, down>>
       \/ /\ hostCtx = "live" /\ stdout = <<>> /\ child # "run"
          /\ outgoing' = "eof" /\ UNCHANGED <<stdout, hostPend, down>>
       \/ /\ hostCtx = "cancelled"
          /\ outgoing' = "error" /\ UNCHANGED <<stdout, hostPend, down>>
    /\ UNCHANGED <<conn, up, ideVars, clientVars, hostCtx, stdin, incoming, child, writes, loop, host>>

(* case code = <-done *)
LoopChild ==
    /\ host = "run" /\ child # "run" /\ ~loop.child
    /\ loop' = [loop EXCEPT !.child = TRUE]
    /\ UNCHANGED <<conn, up, down, ideVars, clientVars, hostCtx, hostPend, stdin, stdout,
                   incoming, outgoing, child, writes, host>>

(* An error or a cancelled context: cancel, wait for the child, return. *)
Abandon == Cancel /\ host' = IF loop.child THEN "error" ELSE "wait"

(* case e = <-incoming; EOF starts the five second timer. *)
LoopIncoming ==
    /\ host = "run" /\ incoming # "run" /\ ~loop.input
    /\ loop' = [loop EXCEPT !.input = TRUE]
    /\ \/ incoming = "error" /\ Abandon
       \/ incoming = "eof" /\ UNCHANGED <<conn, hostCtx, host, up, stdin, stdout, hostPend>>
    /\ UNCHANGED <<down, ideVars, clientVars, incoming, outgoing, child, writes>>

(* case e = <-outgoing *)
LoopOutgoing ==
    /\ host = "run" /\ outgoing # "run" /\ ~loop.output
    /\ loop' = [loop EXCEPT !.output = TRUE]
    /\ \/ outgoing = "error" /\ Abandon
       \/ outgoing = "eof" /\ UNCHANGED <<conn, hostCtx, host, up, stdin, stdout, hostPend>>
    /\ UNCHANGED <<down, ideVars, clientVars, incoming, outgoing, child, writes>>

(* case <-ctx.Done() *)
LoopDone ==
    /\ host = "run" /\ hostCtx = "cancelled" /\ ~(loop.child /\ loop.output)
    /\ Abandon
    /\ UNCHANGED <<down, ideVars, clientVars, incoming, outgoing, child, writes, loop>>

(* Mutant of WaitedForChild: it does not wait. *)
WaitedForNobody ==
    /\ host = "wait" /\ host' = "error"
    /\ UNCHANGED <<conn, up, down, ideVars, clientVars, hostCtx, hostPend, stdin, stdout,
                   incoming, outgoing, child, writes, loop>>

(* <-done, and return: the deferred close of ServeHTTP ends the connection. *)
WaitedForChild ==
    /\ host = "wait" /\ child # "run" /\ host' = "error"
    /\ UNCHANGED <<conn, up, down, ideVars, clientVars, hostCtx, hostPend, stdin, stdout,
                   incoming, outgoing, child, writes, loop>>

(* The loop has seen both: Exit is sent and RelayHost returns; ServeHTTP     *)
(* closes the connection behind it.                                          *)
SendExit ==
    /\ host = "run" /\ loop.child /\ loop.output
    /\ \/ conn = "open" /\ hostCtx = "live" /\ down' = Append(down, child) /\ host' = "ok"
       \/ conn = "silent" /\ hostCtx = "live" /\ down' = down /\ host' = "ok"
       \/ (conn # "open" \/ hostCtx = "cancelled") /\ host' = "error" /\ down' = down
    /\ Cancel
    /\ UNCHANGED <<ideVars, clientVars, incoming, outgoing, child, writes, loop>>

(* The deadline that an EOF from the client starts. *)
EofTimer ==
    /\ host = "run" /\ loop.input /\ hostCtx = "live" /\ Cancel
    /\ UNCHANGED <<down, ideVars, clientVars, incoming, outgoing,
                   child, writes, loop, host>>

(* The keep-alive of ServeHTTP.  A ping needs the peer and a goroutine that  *)
(* reads the connection: the incoming one, unless it is blocked on stdin.    *)
PingFails ==
    /\ host \in {"run", "wait"} /\ hostCtx = "live"
    /\ \/ conn # "open"
       \/ incoming # "run"
       \/ up # <<>> /\ Head(up) \in Ids /\ Len(stdin) >= Buffer
    /\ Cancel
    /\ UNCHANGED <<down, ideVars, clientVars, incoming, outgoing,
                   child, writes, loop, host>>

(* The thirty minutes of ServeHTTP, a changed peer, or a stopping hub. *)
ParentCancels ==
    /\ host = "run" /\ hostCtx = "live" /\ Cancel
    /\ UNCHANGED <<down, ideVars, clientVars, incoming, outgoing,
                   child, writes, loop, host>>

(* process.Run kills the process group of a cancelled context, and reports   *)
(* 130 however the agent ended.                                              *)
KillChild ==
    /\ child = "run" /\ hostCtx = "cancelled" /\ child' = "exit 130"
    /\ UNCHANGED <<conn, up, down, ideVars, clientVars, hostCtx, hostPend, stdin, stdout,
                   incoming, outgoing, writes, loop, host>>

-----------------------------------------------------------------------------
(* The environment: the agent, the IDE and the network. *)

AgentReads ==
    /\ child = "run" /\ hostCtx = "live" /\ stdin # <<>> /\ stdin' = Tail(stdin)
    /\ UNCHANGED <<conn, up, down, ideVars, clientVars, hostCtx, hostPend, stdout,
                   incoming, outgoing, child, writes, loop, host>>

(* The agent answers some id, asked or not. *)
AgentWrites(id) ==
    /\ child = "run" /\ hostCtx = "live" /\ writes < MaxAnswers /\ Len(stdout) < Buffer
    /\ writes' = writes + 1 /\ stdout' = Append(stdout, id)
    /\ UNCHANGED <<conn, up, down, ideVars, clientVars, hostCtx, hostPend, stdin,
                   incoming, outgoing, child, loop, host>>

AgentExits(code) ==
    /\ child = "run" /\ hostCtx = "live" /\ child' = code
    /\ UNCHANGED <<conn, up, down, ideVars, clientVars, hostCtx, hostPend, stdin, stdout,
                   incoming, outgoing, writes, loop, host>>

IdeCloses ==
    /\ client = "run" /\ ~ideEof /\ ideEof' = TRUE
    /\ UNCHANGED <<conn, up, down, ideReads, asked, answered, clientVars, hostVars>>

IdeStopsReading ==
    /\ client = "run" /\ ideReads /\ ideReads' = FALSE
    /\ UNCHANGED <<conn, up, down, ideEof, asked, answered, clientVars, hostVars>>

(* The connection breaks, and both ends' reads fail. *)
ConnectionLost ==
    /\ conn \in {"open", "silent"} /\ conn' = "lost"
    /\ UNCHANGED <<up, down, ideVars, clientVars, hostVars>>

(* A partition: nothing arrives any more, and no read is told. *)
ConnectionSilent ==
    /\ conn = "open" /\ conn' = "silent"
    /\ UNCHANGED <<up, down, ideVars, clientVars, hostVars>>

-----------------------------------------------------------------------------
Loop == LoopChild \/ LoopIncoming \/ LoopOutgoing \/ LoopDone \/ WaitedForChild \/ SendExit

RelayNext ==
    \/ \E id \in Ids : ClientForward(id) \/ AgentWrites(id)
    \/ ClientEnd \/ ClientReceive \/ ClientWriteFails \/ ClientReturn \/ ClientInterrupted
    \/ HostIncoming \/ HostOutgoing \/ EofTimer \/ PingFails \/ ParentCancels \/ KillChild
    \/ LoopChild \/ LoopIncoming \/ LoopOutgoing \/ LoopDone \/ WaitedForChild \/ SendExit
    \/ AgentReads \/ (\E code \in {"exit 0", "exit 1"} : AgentExits(code))
    \/ IdeCloses \/ IdeStopsReading \/ ConnectionLost \/ ConnectionSilent

RelaySpec == RelayInit /\ [][RelayNext]_relayVars

(* The goroutines run, timers fire and a kill is carried out.  Nothing makes *)
(* the IDE write or read, the agent read, answer or exit, or a silent        *)
(* connection break.                                                         *)
RelayFairSpec ==
    /\ RelaySpec
    /\ WF_relayVars(ClientEnd) /\ WF_relayVars(ClientReceive) /\ WF_relayVars(ClientReturn)
    /\ WF_relayVars(HostIncoming) /\ WF_relayVars(HostOutgoing) /\ WF_relayVars(Loop)
    /\ WF_relayVars(EofTimer) /\ WF_relayVars(PingFails) /\ WF_relayVars(KillChild)

-----------------------------------------------------------------------------
(* relayClient reports success only when the agent exited with 0 and every   *)
(* request accepted before its exit was read has been answered.              *)
SuccessIsComplete ==
    client = "ok" => child = "exit 0" /\ \A id \in Ids \ late : answered[id] = asked[id]

(* RelayHost never returns while the agent it started runs. *)
ChildIsContained == host \in Returned => child # "run"

(* An IDE that closes its end, or a connection that is lost, ends both       *)
(* relays although the agent never exits and never reads, as long as the     *)
(* IDE takes what was written for it.  A partition that no read is told of   *)
(* ends RelayHost all the same, through its pings; relayClient, which sends  *)
(* none, may then wait for as long as the connection stays silent.           *)
RelayEnds ==
    [](ideReads) =>
        /\ (ideEof \/ conn # "open") ~> (host \in Returned)
        /\ (ideEof \/ conn # "open") ~> (client \in Returned \/ conn = "silent")
=============================================================================
