---------------------------- MODULE UpgradeStream ----------------------------
(***************************************************************************)
(* The live log of one Helm operation, from the goroutine that writes it   *)
(* to the browser that shows it.                                           *)
(*                                                                         *)
(* The operation and its heartbeat append lines to an upgradeStream; every *)
(* WebSocket connection is a handler of its own that replays the log,      *)
(* subscribes and passes lines on through a buffered channel.  The browser *)
(* reconnects when its socket drops, and its gate hides the lines of the   *)
(* replay it has already shown.  A handler does not notice that its        *)
(* browser is gone before a write fails, so it may outlive the connection. *)
(*                                                                         *)
(* A line is its position in the log; the log records who wrote it.        *)
(***************************************************************************)
EXTENDS Naturals, Sequences

CONSTANTS MaxConns,   \* bound: sockets the browser gets to open
          Attempts,   \* length of RECONNECT_DELAYS_MS
          Buffer,     \* capacity of a subscriber's channel
          MaxTicks,   \* bound: heartbeats during the Helm call
          MaxIntro,   \* bound: lines before the Helm call
          Outcomes,   \* what an operation can end in
          None

ASSUME StreamAssumption ==
    /\ MaxConns \in Nat \ {0}
    /\ Attempts \in Nat
    /\ Buffer \in Nat \ {0}
    /\ MaxTicks \in Nat
    /\ MaxIntro \in Nat \ {0}
    /\ Outcomes \subseteq {"success", "failed", "hooks-failed"}
    /\ None \notin Nat \cup Outcomes \cup {"pending"}

Conns    == 1..MaxConns
Statuses == Outcomes \cup {"pending"}

VARIABLES
    alive,     \* the process holds the stream; a restart loses it
    op,        \* step of the operation's goroutine
    toTell,    \* lines it writes before its next step
    outcome,   \* what the Helm call and the hooks came to
    ticker,    \* the heartbeat's goroutine
    ticks,     \* heartbeats so far
    logs,      \* who wrote line 1, 2, ...
    done,      \* finish was called
    status,    \* the status of the stream
    subs,      \* connections whose channel emit writes to
    closed,    \* connections whose channel finish closed
    ch,        \* connection -> lines in its channel
    at,        \* connection -> step of its handler
    replayed,  \* connection -> lines of the replay already sent
    replay,    \* connection -> lines of the replay
    final,     \* connection -> the status its "done" frame will carry, or None
    browser,   \* what the page does
    conn,      \* the connection the page listens to, or None
    opened,    \* sockets opened so far
    attempt,   \* reconnects since a socket was last open
    seen,      \* lines this connection has brought
    delivered, \* the gate's count of lines shown
    view,      \* the lines shown
    told,      \* the status the page was told, or None
    missed     \* a line was written that the page's handler will never send

operation == <<op, toTell, outcome, ticker, ticks>>
stream    == <<logs, done, status, subs, closed>>
handlers  == <<at, replayed, replay, final>>
page      == <<browser, conn, opened, attempt, seen, delivered, view, told>>
vars      == <<alive, operation, stream, ch, handlers, page, missed>>

TypeOK ==
    /\ alive \in BOOLEAN
    /\ op \in {"starting", "helm", "stopHelm", "telling", "finished", "lost"}
    /\ toTell \in 0..(MaxIntro + 3)
    /\ outcome \in Outcomes \cup {None}
    /\ ticker \in {"off", "waiting", "probing"}
    /\ ticks \in 0..MaxTicks
    /\ logs \in Seq({"start", "tick", "end"})
    /\ done \in BOOLEAN
    /\ status \in Statuses
    /\ subs \subseteq Conns
    /\ closed \subseteq Conns
    /\ ch \in [Conns -> Seq(1..Len(logs))]
    /\ \A c \in Conns : Len(ch[c]) <= Buffer
    /\ at \in [Conns -> {"unused", "snapshot", "replay", "subscribe", "live",
                         "lastWord", "leaving", "gone"}]
    /\ replayed \in [Conns -> 0..Len(logs)]
    /\ replay \in [Conns -> 0..Len(logs)]
    /\ final \in [Conns -> Statuses \cup {None}]
    /\ browser \in {"connecting", "open", "recovering", "done", "asked",
                   "gaveUp", "silent"}
    /\ conn \in Conns \cup {None}
    /\ opened \in 0..MaxConns
    /\ attempt \in 0..Attempts
    /\ seen \in 0..Len(logs)
    /\ delivered \in 0..Len(logs)
    /\ view \in Seq(1..Len(logs))
    /\ told \in Statuses \cup {None}
    /\ missed \in BOOLEAN

Init ==
    /\ alive = TRUE
    /\ op = "starting"
    /\ toTell \in 1..MaxIntro
    /\ outcome = None
    /\ ticker = "off"
    /\ ticks = 0
    /\ logs = << >>
    /\ done = FALSE
    /\ status = "pending"
    /\ subs = {}
    /\ closed = {}
    /\ ch = [c \in Conns |-> << >>]
    /\ at = [c \in Conns |-> "unused"]
    /\ replayed = [c \in Conns |-> 0]
    /\ replay = [c \in Conns |-> 0]
    /\ final = [c \in Conns |-> None]
    /\ browser = "connecting"
    /\ conn = None
    /\ opened = 0
    /\ attempt = 0
    /\ seen = 0
    /\ delivered = 0
    /\ view = << >>
    /\ told = None
    /\ missed = FALSE

-----------------------------------------------------------------------------
(* The stream: every operator is one critical section of its mutex.        *)

\* A handler that took its snapshot and is not subscribed will not see a new
\* line; nor will one whose channel is full.
InTheGap == {c \in Conns : at[c] \in {"replay", "subscribe"}}
Full     == {c \in subs : Len(ch[c]) = Buffer}

\* Fault: the channel takes every line, however slow its consumer.
EmitUnbounded(who) ==
    /\ logs' = Append(logs, who)
    /\ ch' = [c \in Conns |->
                IF c \in subs THEN Append(ch[c], Len(logs) + 1) ELSE ch[c]]
    /\ UNCHANGED <<missed, done, status, subs, closed>>

Emit(who) ==
    /\ logs' = Append(logs, who)
    /\ ch' = [c \in Conns |->
                IF c \in subs \ Full THEN Append(ch[c], Len(logs) + 1) ELSE ch[c]]
    /\ missed' = (missed \/ conn \in InTheGap \cup Full)
    /\ UNCHANGED <<done, status, subs, closed>>

\* Fault: the flag is set, the waiting subscribers are forgotten.
FinishSilently(with) ==
    /\ status' = with
    /\ done' = TRUE
    /\ subs' = {}
    /\ UNCHANGED <<logs, closed, ch, missed>>

Finish(with) ==
    /\ status' = with
    /\ done' = TRUE
    /\ closed' = closed \cup subs
    /\ subs' = {}
    /\ UNCHANGED <<logs, ch, missed>>

\* Fault: the consumer leaves its channel behind.
UnsubscribeNobody(c) == UNCHANGED subs

Unsubscribe(c) == subs' = subs \ {c}

-----------------------------------------------------------------------------
(* The operation and its heartbeat.                                        *)

\* The lines up to the Helm call; then the heartbeat starts.
Introduce ==
    /\ op = "starting"
    /\ \/ /\ toTell > 0
          /\ Emit("start")
          /\ toTell' = toTell - 1
          /\ UNCHANGED <<op, ticker>>
       \/ /\ toTell = 0
          /\ op' = "helm"
          /\ ticker' = "waiting"
          /\ UNCHANGED <<stream, ch, missed, toTell>>
    /\ UNCHANGED <<outcome, ticks>>

\* Helm answers: the heartbeat is told to stop.
HelmReturns ==
    /\ op = "helm"
    /\ op' = "stopHelm"
    /\ outcome' \in Outcomes
    /\ UNCHANGED <<toTell, ticker, ticks, stream, ch, missed>>

\* A failure is one line; a success says so, then what became of the hooks.
LinesOf(result) == CASE result = "failed"       -> 1
                     [] result = "success"      -> 2
                     [] result = "hooks-failed" -> 3

\* Fault: stop signals the heartbeat and does not wait for it.
StopHeartbeatAndRun ==
    /\ op = "stopHelm"
    /\ op' = "telling"
    /\ toTell' = LinesOf(outcome)
    /\ UNCHANGED <<outcome, ticker, ticks, stream, ch, missed>>

\* stopProgress returns when the heartbeat's goroutine has ended.
HeartbeatStopped ==
    /\ op = "stopHelm"
    /\ ticker = "off"
    /\ op' = "telling"
    /\ toTell' = LinesOf(outcome)
    /\ UNCHANGED <<outcome, ticker, ticks, stream, ch, missed>>

Conclude ==
    /\ op = "telling"
    /\ \/ /\ toTell > 0
          /\ Emit("end")
          /\ toTell' = toTell - 1
          /\ UNCHANGED op
       \/ /\ toTell = 0
          /\ Finish(outcome)
          /\ op' = "finished"
          /\ UNCHANGED toTell
    /\ UNCHANGED <<outcome, ticker, ticks>>

\* The elapsed time; with select a tick may win over the stop that is waiting.
Tick ==
    /\ ticker = "waiting"
    /\ ticks < MaxTicks
    /\ Emit("tick")
    /\ ticks' = ticks + 1
    /\ ticker' = "probing"
    /\ UNCHANGED <<op, toTell, outcome>>

\* What the rollout waits for is written when it changed.
Probe ==
    /\ ticker = "probing"
    /\ ticker' = "waiting"
    /\ \/ Emit("tick")
       \/ UNCHANGED <<stream, ch, missed>>
    /\ UNCHANGED <<op, toTell, outcome, ticks>>

TickerStops ==
    /\ ticker = "waiting"
    /\ op \notin {"starting", "helm"}
    /\ ticker' = "off"
    /\ UNCHANGED <<op, toTell, outcome, ticks, stream, ch, missed>>

Operation == /\ alive
             /\ Introduce \/ HelmReturns \/ HeartbeatStopped \/ Conclude
             /\ UNCHANGED <<alive, handlers, page>>

Heartbeat == /\ alive
             /\ Tick \/ Probe \/ TickerStops
             /\ UNCHANGED <<alive, handlers, page>>

-----------------------------------------------------------------------------
(* The page.                                                               *)

\* Fault: the gate is not consulted, every line received is shown.
ShowUngated(c, line) ==
    IF conn = c
    THEN /\ seen' = seen + 1
         /\ view' = Append(view, line)
         /\ delivered' = delivered + 1
    ELSE UNCHANGED <<seen, delivered, view>>

\* A log frame arrives and the gate decides whether it is new; what is
\* written to a connection the page has left reaches nobody.
Show(c, line) ==
    IF conn = c
    THEN /\ seen' = seen + 1
         /\ IF seen + 1 <= delivered
            THEN UNCHANGED <<delivered, view>>
            ELSE /\ delivered' = seen + 1
                 /\ view' = Append(view, line)
    ELSE UNCHANGED <<seen, delivered, view>>

\* onopen: the ticket was accepted and the stream exists.
OpenSocket ==
    /\ browser = "connecting"
    /\ alive
    /\ opened < MaxConns
    /\ opened' = opened + 1
    /\ conn' = opened + 1
    /\ at' = [at EXCEPT ![opened + 1] = "snapshot"]
    /\ browser' = "open"
    /\ attempt' = 0
    /\ seen' = 0
    /\ UNCHANGED <<replayed, replay, final, delivered, view, told>>

\* The socket is refused, or the process no longer knows the stream: onclose.
SocketRefused ==
    /\ browser = "connecting"
    /\ seen' = 0
    /\ browser' = "recovering"
    /\ UNCHANGED <<handlers, conn, opened, attempt, delivered, view, told>>

ScheduleRetry(otherwise) ==
    IF attempt < Attempts
    THEN browser' = "connecting" /\ attempt' = attempt + 1
    ELSE browser' = otherwise /\ UNCHANGED attempt

\* connect ignores that the attempts are used up.
TicketRefused ==
    /\ browser = "connecting"
    /\ ScheduleRetry("silent")
    /\ UNCHANGED <<handlers, conn, opened, seen, delivered, view, told>>

\* The socket drops; what this connection has brought counts no longer.
Drop ==
    /\ browser = "open"
    /\ browser' = "recovering"
    /\ conn' = None
    /\ seen' = 0
    /\ UNCHANGED <<handlers, opened, attempt, delivered, view, told>>

\* recover asks for the status before it reconnects.
Recover ==
    /\ browser = "recovering"
    /\ \/ /\ alive /\ done
          /\ told' = status
          /\ browser' = "asked"
          /\ UNCHANGED attempt
       \/ /\ ScheduleRetry("gaveUp")
          /\ UNCHANGED told
    /\ UNCHANGED <<handlers, conn, opened, seen, delivered, view>>

Reconnect == /\ OpenSocket \/ SocketRefused \/ TicketRefused \/ Recover
             /\ UNCHANGED <<alive, operation, stream, ch, missed>>

Disconnect == /\ Drop
              /\ UNCHANGED <<alive, operation, stream, ch, missed>>

-----------------------------------------------------------------------------
(* A connection's handler, WSHandler.UpgradeLogs.                          *)

StepTo(c, next) == at' = [at EXCEPT ![c] = next]
Says(c, verdict) == final' = [final EXCEPT ![c] = verdict]

Snapshot(c) ==
    /\ at[c] = "snapshot"
    /\ replay' = [replay EXCEPT ![c] = Len(logs)]
    /\ Says(c, IF done THEN status ELSE None)
    /\ StepTo(c, "replay")
    /\ UNCHANGED <<replayed, stream, ch, page>>

Replay(c) ==
    /\ at[c] = "replay"
    /\ \/ /\ replayed[c] < replay[c]
          /\ Show(c, replayed[c] + 1)
          /\ replayed' = [replayed EXCEPT ![c] = @ + 1]
          /\ UNCHANGED <<at, replay>>
       \/ /\ replayed[c] = replay[c]
          /\ StepTo(c, IF final[c] # None THEN "lastWord" ELSE "subscribe")
          /\ replayed' = [replayed EXCEPT ![c] = 0]
          /\ replay' = [replay EXCEPT ![c] = 0]
          /\ UNCHANGED <<seen, delivered, view>>
    /\ UNCHANGED <<final, stream, ch, browser, conn, opened, attempt, told>>

\* Fault: whether the operation ended meanwhile is not looked at again.
SubscribeBlindly(c) ==
    /\ at[c] = "subscribe"
    /\ subs' = subs \cup {c}
    /\ StepTo(c, "live")
    /\ UNCHANGED <<replayed, replay, final, logs, done, status, closed, ch, page>>

\* Registering and asking whether it is over are one critical section.
Subscribe(c) ==
    /\ at[c] = "subscribe"
    /\ \/ /\ done
          /\ Says(c, status)
          /\ StepTo(c, "lastWord")
          /\ UNCHANGED subs
       \/ /\ ~done
          /\ subs' = subs \cup {c}
          /\ StepTo(c, "live")
          /\ UNCHANGED final
    /\ UNCHANGED <<replayed, replay, logs, done, status, closed, ch, page>>

PassOn(c) ==
    /\ at[c] = "live"
    /\ ch[c] # << >>
    /\ Show(c, Head(ch[c]))
    /\ ch' = [ch EXCEPT ![c] = Tail(@)]
    /\ UNCHANGED <<handlers, stream, browser, conn, opened, attempt, told>>

\* Fault: the closed channel is noticed before what is left in it.
SeeClosedEarly(c) ==
    /\ at[c] = "live"
    /\ c \in closed
    /\ Says(c, status)
    /\ StepTo(c, "lastWord")
    /\ UNCHANGED <<replayed, replay, stream, ch, page>>

\* Fault: the last frame carries the status of the subscription.
SeeClosedStale(c) ==
    /\ at[c] = "live"
    /\ ch[c] = << >>
    /\ c \in closed
    /\ Says(c, "pending")
    /\ StepTo(c, "lastWord")
    /\ UNCHANGED <<replayed, replay, stream, ch, page>>

\* A closed channel is drained first; the status is read again.
SeeClosed(c) ==
    /\ at[c] = "live"
    /\ ch[c] = << >>
    /\ c \in closed
    /\ Says(c, status)
    /\ StepTo(c, "lastWord")
    /\ UNCHANGED <<replayed, replay, stream, ch, page>>

SendDone(c) ==
    /\ at[c] = "lastWord"
    /\ StepTo(c, "leaving")
    /\ IF conn = c
       THEN browser' = "done" /\ told' = final[c]
       ELSE UNCHANGED <<browser, told>>
    /\ UNCHANGED <<replayed, replay, final, stream, ch, conn, opened, attempt,
                   seen, delivered, view>>

\* A line, a progress frame or a ping cannot be written.
SendFails(c) ==
    /\ at[c] \in {"replay", "live", "lastWord"}
    /\ conn # c
    /\ StepTo(c, "leaving")
    /\ UNCHANGED <<replayed, replay, final, stream, ch, page>>

\* The deferred unsubscribe; the handler's own state goes with it.
Leave(c) ==
    /\ at[c] = "leaving"
    /\ Unsubscribe(c)
    /\ closed' = closed \ {c}
    /\ ch' = [ch EXCEPT ![c] = << >>]
    /\ replayed' = [replayed EXCEPT ![c] = 0]
    /\ replay' = [replay EXCEPT ![c] = 0]
    /\ Says(c, None)
    /\ StepTo(c, "gone")
    /\ UNCHANGED <<logs, done, status, page>>

Handle(c) == /\ alive
             /\ \/ Snapshot(c) \/ Replay(c) \/ Subscribe(c) \/ PassOn(c)
                \/ SeeClosed(c) \/ SendDone(c) \/ SendFails(c) \/ Leave(c)
             /\ UNCHANGED <<alive, operation, missed>>

\* The process dies, and with it the operation, the stream and the handlers.
Crash ==
    /\ alive
    /\ alive' = FALSE
    /\ op' = "lost"
    /\ toTell' = 0
    /\ ticker' = "off"
    /\ ticks' = 0
    /\ subs' = {}
    /\ closed' = {}
    /\ ch' = [c \in Conns |-> << >>]
    /\ at' = [c \in Conns |-> IF at[c] = "unused" THEN at[c] ELSE "gone"]
    /\ replayed' = [c \in Conns |-> 0]
    /\ replay' = [c \in Conns |-> 0]
    /\ final' = [c \in Conns |-> None]
    /\ browser' = IF browser = "open" THEN "recovering" ELSE browser
    /\ conn' = IF browser = "open" THEN None ELSE conn
    /\ seen' = IF browser = "open" THEN 0 ELSE seen
    /\ UNCHANGED <<outcome, logs, done, status, opened, attempt, delivered,
                   view, told, missed>>

Next == \/ Operation \/ Heartbeat \/ Reconnect \/ Disconnect \/ Crash
        \/ \E c \in Conns : Handle(c)

Spec == Init /\ [][Next]_vars

\* Helm's own timeout ends its call, a ping ends the handler of a dead socket,
\* and the page's timers fire.
FairSpec == /\ Spec
            /\ WF_vars(Operation \/ Heartbeat \/ Reconnect \/ \E c \in Conns : Handle(c))

-----------------------------------------------------------------------------
(* Properties.                                                             *)

\* As long as no line fell between a replay and its subscription or into a
\* full channel, the page shows the log from its first line, in order, every
\* line once, over however many connections (createLogGate).
GateIsExact == ~missed => view = [i \in 1..delivered |-> i]

\* A page that is shown the end by its stream has the whole log, unless a line
\* was missed as above: lines still in a closed channel are passed on first.
WholeStory == browser = "done" /\ ~missed => Len(view) = Len(logs)

\* Whatever way a page learns the end, by the frame after the replay, after a
\* late subscription, after the channel closed or by asking, it is the status
\* the operation ended with.
TheEndIsTrue == told # None => done /\ told = outcome

\* Nothing is written underneath the operation's conclusion: stopProgress
\* waits for a heartbeat already in flight.
HeartbeatNeverUnderneath ==
    \A i, j \in 1..Len(logs) : i < j /\ logs[i] = "end" => logs[j] = "end"

\* emit writes to handlers that read or are about to unsubscribe, never to a
\* channel nobody will read again.
NobodyLeaksAChannel == \A c \in subs : at[c] \in {"live", "leaving"}

\* No handler waits forever: not on an operation that ended while it
\* subscribed, not on a browser that went away.
EveryHandlerEnds == <>[](\A c \in Conns : at[c] \in {"unused", "gone"})

\* A page left open comes to an end: it is told one, or it stops trying.
EveryPageSettles == <>[](browser \in {"done", "asked", "gaveUp", "silent"})

\* ws.go: "Replay what already happened, so a reconnecting client loses
\* nothing": a page that saw the end has seen every line.
LosesNothing ==
    browser = "done" =>
        \A line \in 1..Len(logs) : \E i \in 1..Len(view) : view[i] = line

=============================================================================
