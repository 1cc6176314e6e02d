------------------------- MODULE UpgradeStreamProofs -------------------------
(***************************************************************************)
(* The live log for any number of connections, lines, heartbeats and       *)
(* reconnects, and a channel of any capacity: the end a page learns is     *)
(* true, the conclusion stands last, no channel is left behind, and a page *)
(* that missed no line shows the log, at its end the whole of it.          *)
(***************************************************************************)
EXTENDS UpgradeStream, SequenceTheorems, TLAPS

Writers == {"start", "tick", "end"}
At      == {"unused", "snapshot", "replay", "subscribe", "live", "lastWord", "leaving", "gone"}

(* The types the steps rest on.                                            *)
Typed ==
    /\ op \in {"starting", "helm", "stopHelm", "telling", "finished", "lost"}
    /\ outcome \in Outcomes \cup {None}
    /\ ticker \in {"off", "waiting", "probing"}
    /\ logs \in Seq(Writers)
    /\ done \in BOOLEAN
    /\ subs \subseteq Conns
    /\ ch \in [Conns -> Seq(Nat)]
    /\ at \in [Conns -> At]
    /\ replayed \in [Conns -> Nat]
    /\ replay \in [Conns -> Nat]
    /\ final \in [Conns -> Statuses \cup {None}]
    /\ status \in Statuses
    /\ conn \in Conns \cup {None}
    /\ opened \in 0..MaxConns
    /\ seen \in Nat
    /\ delivered \in Nat
    /\ view \in Seq(Nat)
    /\ missed \in BOOLEAN

(* How far the goroutine is, and what can be in the log by then.           *)
Goroutine ==
    /\ op \in {"starting", "helm", "stopHelm"} => \A i \in 1..Len(logs) : logs[i] # "end"
    /\ op \in {"starting", "telling", "finished", "lost"} => ticker = "off"
    /\ op \in {"stopHelm", "telling"} => outcome # None

(* The stream ends once, and its end is what everybody is told.            *)
Ending ==
    /\ done => /\ op \in {"finished", "lost"} /\ subs = {}
               /\ status = outcome /\ outcome # None
    /\ closed # {} => done
    /\ \A c \in Conns : final[c] # None => done /\ final[c] = outcome
    /\ \A c \in Conns : at[c] = "lastWord" => final[c] # None
    /\ \A c \in Conns : c > opened => at[c] = "unused"

StreamInv == /\ Typed /\ Goroutine /\ Ending
             /\ HeartbeatNeverUnderneath /\ TheEndIsTrue /\ NobodyLeaksAChannel

-----------------------------------------------------------------------------
(* A line is one more in the log, and one more in the channels of those    *)
(* who are subscribed and keep up.                                         *)
LEMMA EmitEffect ==
    ASSUME Typed, NEW who \in Writers, Emit(who)
    PROVE  /\ logs' \in Seq(Writers) /\ Len(logs) \in Nat /\ Len(logs') = Len(logs) + 1
           /\ \A i \in 1..Len(logs) : logs'[i] = logs[i]
           /\ logs'[Len(logs) + 1] = who
           /\ ch' \in [Conns -> Seq(Nat)]
           /\ \A c \in Conns : ch'[c] = IF c \in subs \ Full
                                        THEN Append(ch[c], Len(logs) + 1) ELSE ch[c]
           /\ missed' = (missed \/ conn \in InTheGap \cup Full) /\ missed' \in BOOLEAN
           /\ UNCHANGED <<done, status, subs, closed>>
<1>1. logs \in Seq(Writers) /\ logs' = Append(logs, who) /\ Len(logs) \in Nat
  BY LenProperties DEF Typed, Emit
<1>2. /\ logs' \in Seq(Writers) /\ Len(logs') = Len(logs) + 1
      /\ \A i \in 1..Len(logs) : logs'[i] = logs[i]
      /\ logs'[Len(logs) + 1] = who
  BY <1>1, AppendProperties
<1>3. \A c \in Conns : Append(ch[c], Len(logs) + 1) \in Seq(Nat)
  BY <1>1, AppendProperties DEF Typed
<1>. QED
  BY <1>1, <1>2, <1>3 DEF Emit, Typed

(* A frame the page listens to is one more seen, and shown when it is new. *)
LEMMA ShowTyped ==
    ASSUME Typed, NEW c \in Conns, NEW line \in Nat, Show(c, line)
    PROVE  seen' \in Nat /\ delivered' \in Nat /\ view' \in Seq(Nat)
<1>1. Append(view, line) \in Seq(Nat)
  BY AppendProperties DEF Typed
<1>2. seen \in Nat /\ delivered \in Nat /\ view \in Seq(Nat)
  BY DEF Typed
<1>3. CASE conn = c
  <2>1. /\ seen' = seen + 1
        /\ \/ UNCHANGED <<delivered, view>>
           \/ delivered' = seen + 1 /\ view' = Append(view, line)
    BY <1>3 DEF Show
  <2>2. CASE UNCHANGED <<delivered, view>>
    BY <1>2, <2>1, <2>2
  <2>3. CASE delivered' = seen + 1 /\ view' = Append(view, line)
    <3>1. view' \in Seq(Nat)
      BY <1>1, <2>3
    <3>. QED
      BY <1>2, <2>1, <2>3, <3>1
  <2>. QED
    BY <2>1, <2>2, <2>3
<1>4. CASE conn # c
  BY <1>2, <1>4 DEF Show
<1>. QED
  BY <1>3, <1>4

(* What a step of the operation or its heartbeat does to the types.        *)
LEMMA WorkTyped ==
    ASSUME StreamInv, Operation \/ Heartbeat
    PROVE  Typed'
<1>. USE DEF StreamInv, handlers, page
<1>1. CASE \E who \in Writers : Emit(who)
  <2>1. PICK who \in Writers : Emit(who)
    BY <1>1
  <2>2. /\ logs' \in Seq(Writers) /\ ch' \in [Conns -> Seq(Nat)] /\ missed' \in BOOLEAN
        /\ UNCHANGED <<done, status, subs>>
    BY <2>1, EmitEffect
  <2>3. /\ op' \in {"starting", "helm", "stopHelm", "telling", "finished", "lost"}
        /\ outcome' \in Outcomes \cup {None}
        /\ ticker' \in {"off", "waiting", "probing"}
    BY DEF Typed, Operation, Heartbeat, Introduce, HelmReturns, HeartbeatStopped,
           Conclude, Tick, Probe, TickerStops
  <2>. QED
    BY <2>2, <2>3 DEF Typed, Operation, Heartbeat
<1>2. CASE UNCHANGED <<logs, ch, missed>>
  <2>1. /\ op' \in {"starting", "helm", "stopHelm", "telling", "finished", "lost"}
        /\ outcome' \in Outcomes \cup {None}
        /\ ticker' \in {"off", "waiting", "probing"}
    BY DEF Typed, Operation, Heartbeat, Introduce, HelmReturns, HeartbeatStopped,
           Conclude, Tick, Probe, TickerStops
  <2>2. done' \in BOOLEAN /\ status' \in Statuses /\ subs' \subseteq Conns
    BY DEF Typed, Goroutine, Operation, Heartbeat, Introduce, HelmReturns, HeartbeatStopped,
           Conclude, Tick, Probe, TickerStops, Finish, Emit, Statuses, stream
  <2>. QED
    BY <1>2, <2>1, <2>2 DEF Typed, Operation, Heartbeat
<1>. QED
  BY <1>1, <1>2
  DEF Operation, Heartbeat, Introduce, HelmReturns, HeartbeatStopped, Conclude, Tick,
      Probe, TickerStops, Finish, Writers, stream

(* What a step of a handler does to the types.                             *)
LEMMA HandleTyped ==
    ASSUME StreamInv, NEW c \in Conns, Handle(c)
    PROVE  Typed'
<1>0. /\ at' \in [Conns -> At] /\ subs' \subseteq Conns /\ Len(logs) \in Nat
      /\ Head(ch[c]) \in Nat \/ ch[c] = << >>
      /\ Tail(ch[c]) \in Seq(Nat) \/ ch[c] = << >>
  <2>1. at' \in [Conns -> At]
    BY DEF StreamInv, Typed, Handle, Snapshot, Replay, Subscribe, PassOn, SeeClosed,
           SendDone, SendFails, Leave, StepTo, At, handlers
  <2>2. subs' \subseteq Conns
    BY DEF StreamInv, Typed, Handle, Snapshot, Replay, Subscribe, PassOn, SeeClosed,
           SendDone, SendFails, Leave, Unsubscribe, stream
  <2>. QED
    BY <2>1, <2>2, LenProperties, HeadTailProperties DEF StreamInv, Typed
<1>. USE <1>0 DEF StreamInv, Says, operation, stream, handlers, page
<1>1. CASE Snapshot(c)
  BY <1>1 DEF Typed, Handle, Snapshot
<1>2. CASE Replay(c)
  <2>1. replayed[c] + 1 \in Nat
    BY DEF Typed
  <2>2. seen' \in Nat /\ delivered' \in Nat /\ view' \in Seq(Nat)
    BY <1>2, <2>1, ShowTyped DEF Replay, Typed
  <2>3. replayed' \in [Conns -> Nat] /\ replay' \in [Conns -> Nat]
    BY <1>2, <2>1 DEF Replay, Typed
  <2>4. UNCHANGED <<final, conn, opened, logs, done, status, ch, op, outcome, ticker, missed>>
    BY <1>2 DEF Handle, Replay
  <2>. QED
    BY <2>2, <2>3, <2>4 DEF Typed
<1>3. CASE Subscribe(c) \/ SeeClosed(c)
  BY <1>3 DEF Typed, Handle, Subscribe, SeeClosed
<1>4. CASE PassOn(c)
  <2>1. seen' \in Nat /\ delivered' \in Nat /\ view' \in Seq(Nat)
    BY <1>4, ShowTyped DEF PassOn
  <2>2. ch' \in [Conns -> Seq(Nat)]
    BY <1>4 DEF PassOn, Typed
  <2>. QED
    BY <1>4, <2>1, <2>2 DEF Typed, Handle, PassOn
<1>5. CASE SendDone(c) \/ SendFails(c)
  BY <1>5 DEF Typed, Handle, SendDone, SendFails
<1>6. CASE Leave(c)
  <2>1. << >> \in Seq(Nat)
    OBVIOUS
  <2>. QED
    BY <1>6, <2>1 DEF Typed, Handle, Leave
<1>. QED
  BY <1>1, <1>2, <1>3, <1>4, <1>5, <1>6 DEF Handle

(* The types, step by step.                                                *)
LEMMA StepTyped == StreamInv /\ [Next]_vars => Typed'
<1>. SUFFICES ASSUME StreamInv, [Next]_vars PROVE Typed'
  OBVIOUS
<1>1. CASE Reconnect \/ Disconnect
  <2>1. opened' \in 0..MaxConns /\ conn' \in Conns \cup {None}
    BY <1>1, StreamAssumption
    DEF StreamInv, Typed, Reconnect, Disconnect, OpenSocket, SocketRefused, TicketRefused,
        Recover, Drop, Conns, StreamAssumption
  <2>2. at' \in [Conns -> At]
    BY <1>1
    DEF StreamInv, Typed, Reconnect, Disconnect, OpenSocket, SocketRefused, TicketRefused,
        Recover, Drop, At, handlers
  <2>3. seen' \in Nat
    BY <1>1
    DEF StreamInv, Typed, Reconnect, Disconnect, OpenSocket, SocketRefused, TicketRefused,
        Recover, Drop
  <2>. QED
    BY <1>1, <2>1, <2>2, <2>3
    DEF StreamInv, Typed, Reconnect, Disconnect, OpenSocket, SocketRefused, TicketRefused,
        Recover, Drop, handlers, operation, stream
<1>2. CASE Crash
  <2>1. << >> \in Seq(Nat) /\ 0 \in Nat
    OBVIOUS
  <2>2. at' \in [Conns -> At]
    BY <1>2 DEF StreamInv, Typed, Crash, At
  <2>. QED
    BY <1>2, <2>1, <2>2 DEF StreamInv, Typed, Crash
<1>3. CASE UNCHANGED vars
  BY <1>3 DEF StreamInv, Typed, vars, operation, stream, handlers, page
<1>. QED
  BY <1>1, <1>2, <1>3, WorkTyped, HandleTyped DEF Next

-----------------------------------------------------------------------------
(* The stop of the heartbeat is waited for, so the conclusion is last.     *)
LEMMA StepQuiet == StreamInv /\ [Next]_vars => (Goroutine /\ HeartbeatNeverUnderneath)'
<1>. SUFFICES ASSUME StreamInv, [Next]_vars PROVE (Goroutine /\ HeartbeatNeverUnderneath)'
  OBVIOUS
<1>0. /\ Typed /\ Goroutine /\ HeartbeatNeverUnderneath /\ Len(logs) \in Nat
      /\ None \notin Outcomes
  BY LenProperties, StreamAssumption DEF StreamInv, Typed, StreamAssumption
<1>. USE <1>0
<1>1. ASSUME NEW who \in {"start", "tick"}, Emit(who), UNCHANGED <<op, outcome>>,
             op \in {"starting", "helm", "stopHelm"}, op = "starting" => ticker' = "off"
      PROVE  (Goroutine /\ HeartbeatNeverUnderneath)'
  <2>1. /\ Len(logs') = Len(logs) + 1 /\ \A i \in 1..Len(logs) : logs'[i] = logs[i]
        /\ logs'[Len(logs) + 1] = who
    BY <1>1, EmitEffect DEF Writers
  <2>2. \A i \in 1..Len(logs') : logs'[i] # "end"
    BY <1>1, <2>1 DEF Goroutine
  <2>. QED
    BY <1>1, <2>2 DEF Goroutine, HeartbeatNeverUnderneath
<1>2. CASE Conclude /\ Emit("end")
  <2>1. /\ Len(logs') = Len(logs) + 1 /\ \A i \in 1..Len(logs) : logs'[i] = logs[i]
        /\ logs'[Len(logs) + 1] = "end"
    BY <1>2, EmitEffect DEF Writers
  <2>2. op = "telling" /\ op' \in {"telling", "finished"} /\ UNCHANGED <<outcome, ticker>>
    BY <1>2 DEF Conclude
  <2>3. HeartbeatNeverUnderneath'
    BY <2>1 DEF HeartbeatNeverUnderneath
  <2>. QED
    BY <2>2, <2>3 DEF Goroutine
<1>3. CASE UNCHANGED logs /\ (Operation \/ Heartbeat)
  <2>1. /\ op' \in {"starting", "helm", "stopHelm"} => op \in {"starting", "helm", "stopHelm"}
        /\ op' \in {"starting", "telling", "finished", "lost"} => ticker' = "off"
        /\ op' \in {"stopHelm", "telling"} => outcome' # None
    BY <1>3 DEF Operation, Heartbeat, Introduce, HelmReturns, HeartbeatStopped, Conclude,
                Tick, Probe, TickerStops, Goroutine, Typed
  <2>. QED
    BY <1>3, <2>1 DEF Goroutine, HeartbeatNeverUnderneath
<1>4. CASE UNCHANGED <<logs, op, outcome, ticker>>
  BY <1>4 DEF Goroutine, HeartbeatNeverUnderneath
<1>5. CASE Crash
  BY <1>5 DEF Crash, Goroutine, HeartbeatNeverUnderneath
<1>6. CASE Operation \/ Heartbeat
  <2>1. CASE UNCHANGED logs
    BY <1>3, <1>6, <2>1
  <2>2. CASE Introduce /\ Emit("start") /\ UNCHANGED <<op, ticker>>
    BY <1>1, <2>2 DEF Introduce, Goroutine
  <2>3. CASE (Tick \/ Probe) /\ Emit("tick")
    <3>1. op \in {"helm", "stopHelm"} /\ UNCHANGED <<op, outcome>>
      BY <2>3 DEF Tick, Probe, Typed, Goroutine
    <3>. QED
      BY <1>1, <2>3, <3>1
  <2>. QED
    BY <1>2, <1>6, <2>1, <2>2, <2>3
    DEF Operation, Heartbeat, Introduce, HelmReturns, HeartbeatStopped, Conclude, Tick,
        Probe, TickerStops, Finish, stream
<1>7. CASE Reconnect \/ Disconnect \/ (\E c \in Conns : Handle(c)) \/ UNCHANGED vars
  <2>1. \A c \in Conns : Handle(c) => UNCHANGED <<logs, op, outcome, ticker>>
    BY DEF Handle, Snapshot, Replay, Subscribe, PassOn, SeeClosed, SendDone, SendFails,
           Leave, operation, stream
  <2>. QED
    BY <1>4, <1>7, <2>1 DEF Reconnect, Disconnect, vars, operation, stream
<1>. QED
  BY <1>5, <1>6, <1>7 DEF Next

(* The end is told once, and nobody is told anything else.                 *)
LEMMA StepEnding == StreamInv /\ [Next]_vars => (Ending /\ TheEndIsTrue /\ NobodyLeaksAChannel)'
<1>. SUFFICES ASSUME StreamInv, [Next]_vars
              PROVE  (Ending /\ TheEndIsTrue /\ NobodyLeaksAChannel)'
  OBVIOUS
<1>0. /\ Typed /\ Goroutine /\ Ending /\ TheEndIsTrue /\ NobodyLeaksAChannel
      /\ None \notin Outcomes
  BY StreamAssumption DEF StreamInv, StreamAssumption
<1>. USE <1>0
<1>1. CASE Operation \/ Heartbeat
  <2>1. /\ UNCHANGED <<at, final, told, opened>>
        /\ done => done' /\ op' \in {"finished", "lost"} /\ UNCHANGED <<outcome, status, subs, closed>>
    BY <1>1
    DEF Operation, Heartbeat, Introduce, HelmReturns, HeartbeatStopped, Conclude, Tick,
        Probe, TickerStops, Emit, Ending, Goroutine, handlers, page, stream, Typed
  <2>2. \/ UNCHANGED <<done, subs, closed>>
        \/ done' /\ op' = "finished" /\ subs' = {} /\ status' = outcome' /\ outcome' # None
    BY <1>1
    DEF Operation, Heartbeat, Introduce, HelmReturns, HeartbeatStopped, Conclude, Tick,
        Probe, TickerStops, Emit, Finish, Goroutine, stream, Typed
  <2>. QED
    BY <2>1, <2>2 DEF Ending, TheEndIsTrue, NobodyLeaksAChannel, Typed
<1>2. ASSUME NEW c \in Conns, Handle(c) PROVE (Ending /\ TheEndIsTrue /\ NobodyLeaksAChannel)'
  <2>. USE DEF StepTo, Says, stream, handlers, page
  <2>1. /\ \A b \in Conns \ {c} : at'[b] = at[b] /\ final'[b] = final[b]
        /\ UNCHANGED <<op, outcome, done, status, opened>> /\ at[c] # "unused"
        /\ closed' \subseteq closed
    BY <1>2
    DEF Handle, Snapshot, Replay, Subscribe, PassOn, SeeClosed, SendDone, SendFails, Leave,
        Unsubscribe, Typed, operation
  <2>2. /\ final'[c] # None => done /\ final'[c] = outcome
        /\ at'[c] = "lastWord" => final'[c] # None
    <3>1. CASE Snapshot(c)
      BY <3>1 DEF Snapshot, Ending, Typed
    <3>2. CASE Replay(c) \/ PassOn(c) \/ SendDone(c) \/ SendFails(c) \/ Leave(c)
      BY <3>2 DEF Replay, PassOn, SendDone, SendFails, Leave, Ending, Typed
    <3>3. CASE Subscribe(c) \/ SeeClosed(c)
      BY <3>3 DEF Subscribe, SeeClosed, Ending, Typed
    <3>. QED
      BY <1>2, <3>1, <3>2, <3>3 DEF Handle
  <2>3. told' = told \/ (told' = final[c] /\ final[c] # None)
    BY <1>2
    DEF Handle, Snapshot, Replay, Subscribe, PassOn, SeeClosed, SendDone, SendFails, Leave,
        Ending
  <2>4. /\ \A b \in Conns \ {c} : b \in subs' => b \in subs
        /\ done => subs' = {}
        /\ c \in subs' => at'[c] \in {"live", "leaving"}
    BY <1>2
    DEF Handle, Snapshot, Replay, Subscribe, PassOn, SeeClosed, SendDone, SendFails, Leave,
        Unsubscribe, Ending, NobodyLeaksAChannel, Typed
  <2>5. NobodyLeaksAChannel'
    <3>1. subs' \subseteq Conns
      BY StepTyped DEF Typed
    <3>. QED
      BY <2>1, <2>4, <3>1 DEF NobodyLeaksAChannel
  <2>6. TheEndIsTrue'
    BY <2>1, <2>3 DEF TheEndIsTrue, Ending
  <2>. QED
    BY <2>1, <2>2, <2>4, <2>5, <2>6 DEF Ending
<1>3. CASE Reconnect \/ Disconnect
  <2>1. /\ UNCHANGED <<op, outcome, done, status, subs, closed, final>>
        /\ told' = told \/ (told' = status /\ done)
    BY <1>3 DEF Reconnect, Disconnect, OpenSocket, SocketRefused, TicketRefused, Recover,
                Drop, handlers, operation, stream
  <2>2. /\ opened' \in Nat /\ opened' >= opened /\ opened \in Nat
        /\ \A c \in Conns : /\ at'[c] = at[c] \/ (at'[c] = "snapshot" /\ at[c] = "unused")
                            /\ c > opened' => at'[c] = at[c]
    <3>1. opened \in Nat /\ at \in [Conns -> At] /\ \A c \in Conns : c \in Nat
      BY DEF Typed, Conns
    <3>2. CASE OpenSocket
      <4>1. opened' = opened + 1 /\ at' = [at EXCEPT ![opened + 1] = "snapshot"]
        BY <3>2 DEF OpenSocket
      <4>2. opened' \in Nat /\ opened' >= opened
        BY <3>1, <4>1
      <4>3. ASSUME NEW c \in Conns
            PROVE  /\ at'[c] = at[c] \/ (at'[c] = "snapshot" /\ at[c] = "unused")
                   /\ c > opened' => at'[c] = at[c]
        <5>1. CASE c = opened + 1
          <6>1. c > opened /\ ~(c > opened')
            BY <3>1, <4>1, <5>1
          <6>2. at[c] = "unused"
            BY <6>1 DEF Ending
          <6>3. at'[c] = "snapshot"
            BY <3>1, <4>1, <5>1
          <6>. QED
            BY <6>1, <6>2, <6>3
        <5>2. CASE c # opened + 1
          <6>1. at'[c] = at[c]
            BY <3>1, <4>1, <5>2
          <6>. QED
            BY <6>1
        <5>. QED
          BY <5>1, <5>2
      <4>. QED
        BY <3>1, <4>2, <4>3
    <3>3. CASE UNCHANGED <<opened, at>>
      <4>1. opened' = opened /\ at' = at
        BY <3>3
      <4>2. opened' \in Nat /\ opened' >= opened
        BY <3>1, <4>1
      <4>3. \A c \in Conns : at'[c] = at[c]
        BY <4>1
      <4>. QED
        BY <3>1, <4>2, <4>3
    <3>. QED
      BY <1>3, <3>2, <3>3
      DEF Reconnect, Disconnect, SocketRefused, TicketRefused, Recover, Drop, handlers
  <2>3. NobodyLeaksAChannel' /\ TheEndIsTrue'
    BY <2>1, <2>2 DEF Ending, TheEndIsTrue, NobodyLeaksAChannel, Typed
  <2>4. \A c \in Conns : c > opened' => at'[c] = "unused"
    BY <2>2 DEF Ending, Conns
  <2>. QED
    BY <2>1, <2>2, <2>3, <2>4 DEF Ending
<1>4. CASE Crash
  BY <1>4 DEF Crash, Ending, TheEndIsTrue, NobodyLeaksAChannel
<1>5. CASE UNCHANGED vars
  BY <1>5 DEF vars, operation, stream, handlers, page, Ending, TheEndIsTrue, NobodyLeaksAChannel
<1>. QED
  BY <1>1, <1>2, <1>3, <1>4, <1>5 DEF Next

(* The invariant holds at the start.                                       *)
LEMMA StreamStart == Init => StreamInv
<1>. SUFFICES ASSUME Init PROVE StreamInv
  OBVIOUS
<1>1. << >> \in Seq(Writers) /\ << >> \in Seq(Nat) /\ Len(<< >>) = 0 /\ 0 \in 0..MaxConns
  BY StreamAssumption DEF StreamAssumption
<1>2. Typed
  BY <1>1 DEF Init, Typed, At, Statuses
<1>3. Goroutine /\ HeartbeatNeverUnderneath
  BY <1>1 DEF Init, Goroutine, HeartbeatNeverUnderneath
<1>4. Ending /\ TheEndIsTrue /\ NobodyLeaksAChannel
  BY DEF Init, Ending, TheEndIsTrue, NobodyLeaksAChannel
<1>. QED
  BY <1>2, <1>3, <1>4 DEF StreamInv

(* The parts together.                                                     *)
LEMMA StreamStep == StreamInv /\ [Next]_vars => StreamInv'
BY StepTyped, StepQuiet, StepEnding DEF StreamInv

(* stopProgress waits for a heartbeat in flight: nothing is written below  *)
(* the lines that conclude the operation.                                  *)
THEOREM ConclusionIsLast == Spec => []HeartbeatNeverUnderneath
<1>1. StreamInv => HeartbeatNeverUnderneath
  BY DEF StreamInv
<1>. QED
  BY <1>1, StreamStart, StreamStep, PTL DEF Spec

(* Whatever way a page learns the end, it is the one finish was called     *)
(* with.                                                                   *)
THEOREM EndIsTrue == Spec => []TheEndIsTrue
<1>1. StreamInv => TheEndIsTrue
  BY DEF StreamInv
<1>. QED
  BY <1>1, StreamStart, StreamStep, PTL DEF Spec

(* emit never writes to a channel that nobody reads or unsubscribes.       *)
THEOREM NoChannelLeaks == Spec => []NobodyLeaksAChannel
<1>1. StreamInv => NobodyLeaksAChannel
  BY DEF StreamInv
<1>. QED
  BY <1>1, StreamStart, StreamStep, PTL DEF Spec

-----------------------------------------------------------------------------
(* What the handlers have in their channels, whatever was missed.          *)
Channels == \A c \in Conns :
    /\ at[c] \in {"unused", "snapshot", "replay", "subscribe"} => ch[c] = << >>
    /\ at[c] \in {"unused", "snapshot"} => replayed[c] = 0
    /\ at[c] = "live" => c \in subs \cup closed

(* Where the page stands on its connection and at its end.                 *)
Reading ==
    /\ seen <= delivered
    /\ browser = "done" => /\ conn # None /\ done
                           /\ at[conn] \in {"leaving", "gone"}
    /\ browser \in {"connecting", "recovering"} => conn = None

(* What the handler the page listens to still owes it.                     *)
Owed(c) ==
    /\ at[c] = "snapshot" => seen = 0
    /\ at[c] = "replay" => seen = replayed[c] /\ replay[c] = Len(logs)
    /\ at[c] \in {"subscribe", "lastWord"} => seen = Len(logs)
    /\ at[c] = "live" => /\ Len(ch[c]) = Len(logs) - seen
                         /\ \A i \in 1..Len(ch[c]) : ch[c][i] = seen + i

(* As long as nothing was missed, the page shows a beginning of the log    *)
(* and its handler owes it exactly the rest.                               *)
Exact ==
    /\ Len(view) = delivered /\ delivered <= Len(logs)
    /\ \A i \in 1..delivered : view[i] = i
    /\ browser = "done" => delivered = Len(logs)

Shown == ~missed => /\ Exact
                    /\ conn # None => Owed(conn)

StoryInv == StreamInv /\ Channels /\ Reading /\ Shown

(* A line that is the next one of its connection leaves the page exact.    *)
LEMMA ShowNext ==
    ASSUME Typed, NEW c \in Conns, NEW line \in Nat, Show(c, line), conn = c,
           seen <= delivered, browser # "done", UNCHANGED <<logs, browser>>,
           ~missed => line = seen + 1 /\ line <= Len(logs) /\ Exact
    PROVE  /\ seen' = seen + 1 /\ seen' <= delivered'
           /\ ~missed => Exact'
<1>1. /\ seen \in Nat /\ delivered \in Nat /\ view \in Seq(Nat) /\ Len(logs) \in Nat
      /\ seen' = seen + 1
  BY LenProperties DEF Typed, Show
<1>2. CASE seen + 1 <= delivered
  <2>1. UNCHANGED <<delivered, view>>
    BY <1>2 DEF Show
  <2>. QED
    BY <1>1, <1>2, <2>1 DEF Exact
<1>3. CASE ~(seen + 1 <= delivered)
  <2>1. delivered' = seen + 1 /\ view' = Append(view, line) /\ delivered = seen
    BY <1>1, <1>3 DEF Show
  <2>2. /\ Len(view') = Len(view) + 1
        /\ \A i \in 1..Len(view) : view'[i] = view[i]
        /\ view'[Len(view) + 1] = line
    BY <1>1, <2>1, AppendProperties
  <2>3. ASSUME ~missed PROVE Exact'
    BY <1>1, <2>1, <2>2, <2>3 DEF Exact
  <2>. QED
    BY <1>1, <2>1, <2>3
<1>. QED
  BY <1>2, <1>3

(* What a step of the goroutines does to the log and the channels.         *)
LEMMA WorkEffect ==
    ASSUME StreamInv, Operation \/ Heartbeat
    PROVE  /\ UNCHANGED <<at, replayed, replay, final, browser, conn, opened, seen, delivered, view>>
           /\ \/ UNCHANGED <<logs, ch, missed, done>> /\ subs \cup closed \subseteq subs' \cup closed'
              \/ ~done /\ \E who \in Writers : Emit(who)
              \/ UNCHANGED <<logs, ch, missed>> /\ done' /\ subs \cup closed \subseteq subs' \cup closed'
<1>1. UNCHANGED <<at, replayed, replay, final, browser, conn, opened, seen, delivered, view>>
  BY DEF Operation, Heartbeat, handlers, page
<1>2. CASE (\E who \in Writers : Emit(who)) /\ (op \in {"starting", "telling"} \/ ticker # "off")
  <2>1. ~done
    BY <1>2 DEF StreamInv, Typed, Goroutine, Ending
  <2>. QED
    BY <1>1, <1>2, <2>1
<1>3. CASE UNCHANGED <<logs, ch, missed, done, subs, closed>>
  BY <1>1, <1>3
<1>4. CASE Finish(outcome)
  BY <1>1, <1>4 DEF Finish
<1>. QED
  BY <1>2, <1>3, <1>4
  DEF Operation, Heartbeat, Introduce, HelmReturns, HeartbeatStopped, Conclude, Tick,
      Probe, TickerStops, Writers, stream

(* A new line reaches the page's handler, or counts as missed.             *)
LEMMA WorkStory == ASSUME StoryInv, Operation \/ Heartbeat
                   PROVE  (Channels /\ Reading /\ Shown)'
<1>0. /\ StreamInv /\ Typed /\ Ending /\ NobodyLeaksAChannel /\ Channels /\ Reading /\ Shown
      /\ UNCHANGED <<at, replayed, replay, final, browser, conn, opened, seen, delivered, view>>
  BY WorkEffect DEF StoryInv, StreamInv
<1>1. CASE UNCHANGED <<logs, ch, missed>> /\ (done => done') /\ subs \cup closed \subseteq subs' \cup closed'
  <2>1. Channels' /\ Reading'
    BY <1>0, <1>1 DEF Channels, Reading
  <2>2. Shown'
    BY <1>0, <1>1 DEF Shown, Exact, Owed
  <2>. QED
    BY <2>1, <2>2
<1>2. ASSUME ~done, NEW who \in Writers, Emit(who) PROVE (Channels /\ Reading /\ Shown)'
  <2>1. /\ Len(logs) \in Nat /\ Len(logs') = Len(logs) + 1
        /\ \A c \in Conns : ch'[c] = IF c \in subs \ Full
                                     THEN Append(ch[c], Len(logs) + 1) ELSE ch[c]
        /\ missed' = (missed \/ conn \in InTheGap \cup Full)
        /\ UNCHANGED <<done, subs, closed>>
    BY <1>0, <1>2, EmitEffect
  <2>2. Channels'
    <3>1. \A c \in Conns : ch'[c] # ch[c] => at[c] \in {"live", "leaving"}
      BY <1>0, <2>1 DEF NobodyLeaksAChannel
    <3>. QED
      BY <1>0, <2>1, <3>1 DEF Channels
  <2>3. Reading' /\ browser # "done"
    BY <1>0, <1>2, <2>1 DEF Reading
  <2>4. ASSUME ~missed' PROVE Exact' /\ (conn' # None => Owed(conn)')
    <3>1. ~missed /\ conn \notin InTheGap /\ conn \notin Full
      BY <2>1, <2>4
    <3>2. Exact'
      BY <1>0, <2>1, <2>3, <3>1 DEF Exact, Shown, Typed
    <3>3. ASSUME conn # None PROVE Owed(conn)'
      <4>1. conn \in Conns /\ Owed(conn) /\ seen \in Nat /\ ch[conn] \in Seq(Nat)
            /\ at[conn] \notin {"replay", "subscribe"}
        BY <1>0, <3>1, <3>3 DEF Shown, Typed, InTheGap
      <4>2. at[conn] # "lastWord"
        BY <1>0, <1>2, <4>1 DEF Ending
      <4>3. CASE at[conn] = "live"
        <5>1. conn \in subs \ Full
          BY <1>0, <1>2, <3>1, <4>1, <4>3 DEF Channels, Ending
        <5>2. ch'[conn] = Append(ch[conn], Len(logs) + 1)
          BY <2>1, <4>1, <5>1
        <5>3. /\ Len(ch'[conn]) = Len(ch[conn]) + 1
              /\ \A i \in 1..Len(ch[conn]) : ch'[conn][i] = ch[conn][i]
              /\ ch'[conn][Len(ch[conn]) + 1] = Len(logs) + 1
              /\ Len(ch[conn]) \in Nat
          BY <2>1, <4>1, <5>2, AppendProperties, LenProperties
        <5>4. /\ Len(ch[conn]) = Len(logs) - seen
              /\ \A i \in 1..Len(ch[conn]) : ch[conn][i] = seen + i
          BY <4>1, <4>3 DEF Owed
        <5>5. /\ Len(ch'[conn]) = Len(logs') - seen
              /\ \A i \in 1..Len(ch'[conn]) : ch'[conn][i] = seen + i
          BY <2>1, <4>1, <5>3, <5>4
        <5>. QED
          BY <1>0, <4>3, <5>5 DEF Owed
      <4>4. CASE at[conn] # "live"
        BY <1>0, <4>1, <4>2, <4>4 DEF Owed
      <4>. QED
        BY <4>3, <4>4
    <3>. QED
      BY <1>0, <3>2, <3>3
  <2>. QED
    BY <2>2, <2>3, <2>4 DEF Shown
<1>. QED
  BY <1>0, <1>1, <1>2, WorkEffect

(* What a step of a handler does to its page: it passes the next line on,  *)
(* or it says the last word when the page has everything.                  *)
LEMMA HandleStory == ASSUME StoryInv, NEW c \in Conns, Handle(c)
                     PROVE  (Channels /\ Reading /\ Shown)'
<1>0. /\ StreamInv /\ Typed /\ Ending /\ Channels /\ Reading /\ Shown
      /\ UNCHANGED <<missed, opened>> /\ Len(logs) \in Nat /\ c # None
  <2>1. UNCHANGED <<missed, opened>>
    BY DEF Handle, Snapshot, Replay, Subscribe, PassOn, SeeClosed, SendDone, SendFails,
           Leave, page
  <2>2. c # None
    BY StreamAssumption DEF Conns, StreamAssumption
  <2>. QED
    BY <2>1, <2>2, LenProperties DEF StoryInv, StreamInv, Typed
<1>. USE <1>0 DEF StepTo, Says, stream, handlers, page
<1>1. CASE Snapshot(c)
  <2>1. /\ at[c] = "snapshot" /\ at' = [at EXCEPT ![c] = "replay"]
        /\ replay' = [replay EXCEPT ![c] = Len(logs)]
        /\ UNCHANGED <<replayed, logs, done, subs, closed, ch, browser, conn, seen, delivered, view>>
    BY <1>1 DEF Snapshot
  <2>2. Channels' /\ Reading'
    BY <2>1 DEF Channels, Reading, Typed
  <2>3. Shown'
    BY <2>1 DEF Shown, Exact, Owed, Channels, Typed
  <2>. QED
    BY <2>2, <2>3
<1>2. CASE Replay(c)
  <2>1. CASE /\ replayed[c] < replay[c] /\ Show(c, replayed[c] + 1)
             /\ replayed' = [replayed EXCEPT ![c] = @ + 1]
             /\ UNCHANGED <<at, replay>>
    <3>1. /\ at[c] = "replay" /\ replayed[c] + 1 \in Nat /\ replayed[c] \in Nat /\ replay[c] \in Nat
          /\ UNCHANGED <<logs, done, subs, closed, ch, browser, conn>>
      BY <1>2, <2>1 DEF Replay, Typed
    <3>2. Channels'
      BY <2>1, <3>1 DEF Channels, Typed
    <3>3. CASE conn = c
      <4>1. browser # "done" /\ seen \in Nat /\ seen <= delivered
        BY <3>1, <3>3 DEF Reading, Typed
      <4>2. ~missed => Exact /\ seen = replayed[c] /\ replay[c] = Len(logs)
        BY <3>1, <3>3 DEF Shown, Owed, Conns
      <4>3. /\ seen' = seen + 1 /\ seen' <= delivered'
            /\ ~missed => Exact'
        BY <2>1, <3>1, <3>3, <4>1, <4>2, ShowNext
      <4>4. Reading'
        BY <3>1, <4>1, <4>3 DEF Reading
      <4>5. ~missed => Owed(c)'
        BY <2>1, <3>1, <4>2, <4>3 DEF Owed, Typed
      <4>. QED
        BY <3>1, <3>2, <3>3, <4>3, <4>4, <4>5 DEF Shown
    <3>4. CASE conn # c
      <4>1. UNCHANGED <<seen, delivered, view>>
        BY <2>1, <3>4 DEF Show
      <4>2. Reading' /\ Shown'
        BY <2>1, <3>1, <3>4, <4>1 DEF Reading, Shown, Exact, Owed, Typed
      <4>. QED
        BY <3>2, <4>2
    <3>. QED
      BY <3>3, <3>4
  <2>2. CASE /\ replayed[c] = replay[c]
             /\ StepTo(c, IF final[c] # None THEN "lastWord" ELSE "subscribe")
             /\ replayed' = [replayed EXCEPT ![c] = 0]
             /\ replay' = [replay EXCEPT ![c] = 0]
             /\ UNCHANGED <<seen, delivered, view>>
    <3>1. /\ at[c] = "replay" /\ at'[c] \in {"lastWord", "subscribe"}
          /\ \A b \in Conns \ {c} : at'[b] = at[b] /\ replayed'[b] = replayed[b]
                                    /\ replay'[b] = replay[b]
          /\ UNCHANGED <<logs, done, subs, closed, ch, browser, conn, seen, delivered, view>>
      BY <1>2, <2>2 DEF Replay, Typed
    <3>2. Channels' /\ Reading'
      BY <3>1 DEF Channels, Reading, Typed
    <3>3. Shown'
      BY <2>2, <3>1 DEF Shown, Exact, Owed, Typed
    <3>. QED
      BY <3>2, <3>3
  <2>. QED
    BY <1>2, <2>1, <2>2 DEF Replay
<1>3. CASE Subscribe(c)
  <2>1. /\ at[c] = "subscribe" /\ ch[c] = << >> /\ Len(<< >>) = 0
        /\ UNCHANGED <<replayed, replay, logs, done, closed, ch, browser, conn, seen, delivered, view>>
        /\ \A b \in Conns \ {c} : at'[b] = at[b]
        /\ subs \subseteq subs'
        /\ at'[c] = "lastWord" \/ (at'[c] = "live" /\ c \in subs')
    BY <1>3 DEF Subscribe, Channels, Typed
  <2>2. Channels' /\ Reading'
    BY <2>1 DEF Channels, Reading, Typed
  <2>3. ~missed => Exact'
    BY <2>1 DEF Shown, Exact
  <2>4. ASSUME ~missed, conn # None PROVE Owed(conn)'
    <3>1. Owed(conn) /\ conn \in Conns /\ seen \in Nat
      BY <2>4 DEF Shown, Typed
    <3>2. CASE conn = c
      <4>1. seen = Len(logs) /\ Len(logs) - seen = 0
        BY <2>1, <3>1, <3>2 DEF Owed
      <4>2. Len(ch'[c]) = Len(logs') - seen' /\ \A i \in 1..Len(ch'[c]) : ch'[c][i] = seen' + i
        BY <2>1, <4>1
      <4>. QED
        BY <2>1, <3>2, <4>1, <4>2 DEF Owed
    <3>3. CASE conn # c
      BY <2>1, <3>1, <3>3 DEF Owed
    <3>. QED
      BY <3>2, <3>3
  <2>. QED
    BY <2>1, <2>2, <2>3, <2>4 DEF Shown
<1>4. CASE PassOn(c)
  <2>1. /\ at[c] = "live" /\ ch[c] # << >> /\ ch[c] \in Seq(Nat) /\ Show(c, Head(ch[c]))
        /\ ch' = [ch EXCEPT ![c] = Tail(@)]
        /\ UNCHANGED <<at, replayed, replay, logs, done, subs, closed, browser, conn>>
    BY <1>4 DEF PassOn, Typed
  <2>2. /\ Len(ch[c]) \in Nat \ {0} /\ Head(ch[c]) = ch[c][1] /\ Head(ch[c]) \in Nat
        /\ Len(ch'[c]) = Len(ch[c]) - 1
        /\ \A i \in 1..(Len(ch[c]) - 1) : ch'[c][i] = ch[c][i + 1]
    BY <2>1, HeadTailProperties, LenProperties, EmptySeq DEF Typed
  <2>3. Channels'
    BY <2>1 DEF Channels, Typed
  <2>4. CASE conn = c
    <3>1. browser # "done" /\ seen \in Nat /\ seen <= delivered
      BY <2>1, <2>4 DEF Reading, Typed
    <3>2. ~missed => /\ Exact /\ Len(ch[c]) = Len(logs) - seen
                     /\ \A i \in 1..Len(ch[c]) : ch[c][i] = seen + i
      BY <2>1, <2>4 DEF Shown, Owed
    <3>3. ~missed => Head(ch[c]) = seen + 1 /\ Head(ch[c]) <= Len(logs)
      BY <2>2, <3>1, <3>2
    <3>4. /\ seen' = seen + 1 /\ seen' <= delivered'
          /\ ~missed => Exact'
      BY <2>1, <2>2, <2>4, <3>1, <3>2, <3>3, ShowNext
    <3>5. Reading'
      BY <2>1, <3>1, <3>4 DEF Reading
    <3>6. ASSUME ~missed PROVE Owed(c)'
      <4>1. Len(ch'[c]) = Len(logs) - seen'
        BY <2>2, <3>1, <3>2, <3>4, <3>6
      <4>2. ASSUME NEW i \in 1..Len(ch'[c]) PROVE ch'[c][i] = seen' + i
        <5>1. i \in 1..(Len(ch[c]) - 1) /\ i + 1 \in 1..Len(ch[c])
          BY <2>2
        <5>2. ch'[c][i] = ch[c][i + 1] /\ ch[c][i + 1] = seen + (i + 1)
          BY <2>2, <3>2, <3>6, <5>1
        <5>. QED
          BY <3>1, <3>4, <5>1, <5>2
      <4>. QED
        BY <2>1, <4>1, <4>2 DEF Owed
    <3>. QED
      BY <2>1, <2>3, <2>4, <3>4, <3>5, <3>6 DEF Shown
  <2>5. CASE conn # c
    <3>1. UNCHANGED <<seen, delivered, view>>
      BY <2>1, <2>5 DEF Show
    <3>2. Reading' /\ Shown'
      BY <2>1, <2>5, <3>1 DEF Reading, Shown, Exact, Owed, Typed
    <3>. QED
      BY <2>3, <3>2
  <2>. QED
    BY <2>4, <2>5
<1>5. CASE SeeClosed(c)
  <2>1. /\ at[c] = "live" /\ ch[c] = << >> /\ Len(<< >>) = 0 /\ at' = [at EXCEPT ![c] = "lastWord"]
        /\ UNCHANGED <<replayed, replay, logs, done, subs, closed, ch, browser, conn, seen, delivered, view>>
    BY <1>5 DEF SeeClosed
  <2>2. Channels' /\ Reading'
    BY <2>1 DEF Channels, Reading, Typed
  <2>3. Shown'
    BY <2>1 DEF Shown, Exact, Owed, Typed
  <2>. QED
    BY <2>2, <2>3
<1>6. CASE SendDone(c)
  <2>1. /\ at[c] = "lastWord" /\ at' = [at EXCEPT ![c] = "leaving"] /\ done
        /\ UNCHANGED <<replayed, replay, logs, done, subs, closed, ch, conn, seen, delivered, view>>
        /\ IF conn = c THEN browser' = "done" ELSE UNCHANGED browser
    BY <1>6 DEF SendDone, Ending
  <2>2. Channels'
    BY <2>1 DEF Channels, Typed
  <2>3. Reading'
    BY <2>1, StreamAssumption DEF Reading, Typed, Conns, StreamAssumption
  <2>4. ASSUME ~missed PROVE Exact' /\ (conn' # None => Owed(conn)')
    <3>1. Exact /\ (conn # None => Owed(conn)) /\ seen <= delivered
      BY <2>4 DEF Shown, Reading
    <3>2. conn = c => seen = Len(logs) /\ delivered = Len(logs)
      BY <2>1, <3>1 DEF Owed, Exact, Typed
    <3>3. Exact'
      BY <2>1, <3>1, <3>2 DEF Exact
    <3>. QED
      BY <2>1, <3>1, <3>3 DEF Owed, Typed
  <2>. QED
    BY <2>2, <2>3, <2>4 DEF Shown
<1>7. CASE SendFails(c)
  <2>1. /\ at[c] \in {"replay", "live", "lastWord"} /\ at' = [at EXCEPT ![c] = "leaving"]
        /\ UNCHANGED <<replayed, replay, logs, done, subs, closed, ch, browser, conn, seen, delivered, view>>
    BY <1>7 DEF SendFails
  <2>2. Channels' /\ Reading'
    BY <2>1 DEF Channels, Reading, Typed
  <2>3. Shown'
    BY <2>1 DEF Shown, Exact, Owed, Typed
  <2>. QED
    BY <2>2, <2>3
<1>8. CASE Leave(c)
  <2>1. /\ at[c] = "leaving" /\ at' = [at EXCEPT ![c] = "gone"]
        /\ \A b \in Conns \ {c} : /\ ch'[b] = ch[b] /\ replayed'[b] = replayed[b]
                                  /\ replay'[b] = replay[b]
                                  /\ b \in subs \cup closed => b \in subs' \cup closed'
        /\ UNCHANGED <<logs, done, browser, conn, seen, delivered, view>>
    BY <1>8 DEF Leave, Unsubscribe, Typed
  <2>2. Channels' /\ Reading'
    BY <2>1 DEF Channels, Reading, Typed
  <2>3. Shown'
    BY <2>1 DEF Shown, Exact, Owed, Typed
  <2>. QED
    BY <2>2, <2>3
<1>. QED
  BY <1>1, <1>2, <1>3, <1>4, <1>5, <1>6, <1>7, <1>8 DEF Handle

(* Sockets that open, are refused or drop: the count starts again, what    *)
(* was shown stays.                                                        *)
LEMMA SocketStory == ASSUME StoryInv, Reconnect \/ Disconnect \/ UNCHANGED vars
                     PROVE  (Channels /\ Reading /\ Shown)'
<1>0. /\ StreamInv /\ Typed /\ Ending /\ Channels /\ Reading /\ Shown /\ None \notin Conns
      /\ UNCHANGED <<logs, ch, missed, done, subs, closed, delivered, view, replayed, replay>>
  BY StreamAssumption
  DEF StoryInv, StreamInv, Conns, StreamAssumption, Reconnect, Disconnect, OpenSocket,
      SocketRefused, TicketRefused, Recover, Drop, handlers, stream, vars, page
<1>. USE <1>0
<1>1. CASE OpenSocket
  <2>1. /\ browser' = "open" /\ seen' = 0 /\ conn' = opened + 1 /\ opened + 1 \in Conns
        /\ at' = [at EXCEPT ![opened + 1] = "snapshot"] /\ browser = "connecting"
        /\ opened + 1 > opened
    BY <1>1, StreamAssumption DEF OpenSocket, Typed, Conns, StreamAssumption
  <2>2. at[opened + 1] = "unused" /\ at'[opened + 1] = "snapshot"
        /\ \A c \in Conns \ {opened + 1} : at'[c] = at[c]
    BY <2>1 DEF Ending, Typed
  <2>3. Channels' /\ Reading'
    BY <2>1, <2>2 DEF Channels, Reading, Typed
  <2>4. ~missed => Exact'
    BY <2>1 DEF Shown, Exact
  <2>5. Owed(conn)'
    BY <2>1, <2>2 DEF Owed
  <2>. QED
    BY <2>3, <2>4, <2>5 DEF Shown
<1>2. CASE UNCHANGED <<at, conn, seen, browser>>
  BY <1>2 DEF Channels, Reading, Shown, Exact, Owed
<1>3. CASE TicketRefused \/ Recover
  <2>1. /\ UNCHANGED <<at, conn, seen>> /\ conn = None
        /\ browser' \in {"connecting", "silent", "asked", "gaveUp"}
    BY <1>3 DEF TicketRefused, Recover, ScheduleRetry, handlers, Reading
  <2>. QED
    BY <2>1 DEF Channels, Reading, Shown, Exact
<1>4. CASE Drop
  <2>1. UNCHANGED at /\ seen' = 0 /\ browser' = "recovering" /\ conn' = None
    BY <1>4 DEF Drop, handlers
  <2>. QED
    BY <2>1 DEF Channels, Reading, Shown, Exact, Typed
<1>5. CASE SocketRefused
  <2>1. UNCHANGED <<at, conn>> /\ seen' = 0 /\ browser' = "recovering" /\ conn = None
    BY <1>5 DEF SocketRefused, handlers, Reading
  <2>. QED
    BY <2>1 DEF Channels, Reading, Shown, Exact, Typed
<1>. QED
  BY <1>1, <1>2, <1>4, <1>5, <1>3 DEF Reconnect, Disconnect, handlers, vars, page

(* The process dies: only a page that has its end keeps its connection.    *)
LEMMA CrashStory == ASSUME StoryInv, Crash
                    PROVE  (Channels /\ Reading /\ Shown)'
<1>0. Typed /\ Ending /\ Channels /\ Reading /\ Shown
  BY DEF StoryInv, StreamInv
<1>1. /\ at' = [c \in Conns |-> IF at[c] = "unused" THEN at[c] ELSE "gone"]
      /\ ch' = [c \in Conns |-> << >>] /\ replayed' = [c \in Conns |-> 0]
      /\ UNCHANGED <<logs, done, missed, delivered, view>>
  BY DEF Crash
<1>2. Channels'
  BY <1>1 DEF Channels
<1>3. Reading' /\ (browser' = "done" => browser = "done")
  BY <1>0, <1>1 DEF Crash, Reading, Typed
<1>4. Shown'
  <2>1. ~missed => Exact'
    BY <1>0, <1>1, <1>3 DEF Exact, Shown
  <2>2. \A c \in Conns : Owed(c)'
    BY <1>1 DEF Owed
  <2>3. conn' \in Conns \cup {None}
    BY <1>0 DEF Crash, Typed
  <2>. QED
    BY <1>1, <2>1, <2>2, <2>3 DEF Shown
<1>. QED
  BY <1>2, <1>3, <1>4

(* The story holds at the start.                                           *)
LEMMA StoryStart == Init => StoryInv
<1>. SUFFICES ASSUME Init PROVE StoryInv
  OBVIOUS
<1>1. StreamInv /\ Len(<< >>) = 0
  BY StreamStart
<1>2. Channels /\ Reading
  BY DEF Init, Channels, Reading
<1>3. Shown
  BY <1>1 DEF Init, Shown, Exact
<1>. QED
  BY <1>1, <1>2, <1>3 DEF StoryInv

(* And every step keeps it.                                                *)
LEMMA StoryStep == StoryInv /\ [Next]_vars => StoryInv'
<1>. SUFFICES ASSUME StoryInv, [Next]_vars PROVE StoryInv'
  OBVIOUS
<1>1. StreamInv'
  BY StreamStep DEF StoryInv
<1>. QED
  BY <1>1, WorkStory, HandleStory, SocketStory, CrashStory DEF Next, StoryInv

(* The gate shows every line once, in its order, over however many         *)
(* connections.                                                            *)
THEOREM LinesAreShownOnce == Spec => []GateIsExact
<1>1. StoryInv => GateIsExact
  <2>. SUFFICES ASSUME StoryInv, ~missed PROVE view = [i \in 1..delivered |-> i]
    BY DEF GateIsExact
  <2>1. view \in Seq(Nat) /\ Len(view) = delivered /\ \A i \in 1..delivered : view[i] = i
    BY DEF StoryInv, StreamInv, Typed, Shown, Exact
  <2>2. view \in [1..delivered -> Nat]
    BY <2>1, LenProperties
  <2>. QED
    BY <2>1, <2>2
<1>. QED
  BY <1>1, StoryStart, StoryStep, PTL DEF Spec

(* A page that is told the end by its stream has been shown the whole log. *)
THEOREM EndComesLast == Spec => []WholeStory
<1>1. StoryInv => WholeStory
  BY DEF StoryInv, WholeStory, Shown, Exact
<1>. QED
  BY <1>1, StoryStart, StoryStep, PTL DEF Spec

=============================================================================
