------------------------------- MODULE Samplers -------------------------------
(* The histories MatrixCtrl keeps of what it reads on a timer                *)
(* (internal/rtc/sample.go, sampler.go, address.go, store.go, watcher.go,    *)
(* retention.go, internal/synmetrics/sampler.go, synmetrics.go,              *)
(* internal/api/handlers/rtc.go).                                            *)
(*                                                                           *)
(* Two samplers turn counters that begin at zero with every start of the     *)
(* process they count for into what happened: the one of the call server     *)
(* keeps the previous reading in the database, the one of Synapse in memory. *)
(* A third history holds what the host of the call server resolves to; the   *)
(* page adds to it as well as the watcher, and judges by it whether the      *)
(* address the call server announces is still the one clients reach.         *)
EXTENDS Integers, FiniteSets, Sequences, SequencesExt

CONSTANTS
    Counters,       \* what a process counts
    CPU,            \* the counter that every Synapse process has
    MaxCount,       \* bound: how much of each ever happens
    MaxLives,       \* bound: starts of the process that is read
    Answers,        \* answers of the resolver, sequences of addresses
    MaxChanges,     \* bound: changes of the address
    MaxRows,        \* bound: rows of a history
    MaxTroubles,    \* bound: reads and writes that fail, restarts of MatrixCtrl
    None

VARIABLES
    kind,       \* which history this is
    source,     \* the process that is read: its counters, its life, what ever happened
    memory,     \* the reading of Synapse that is kept in memory
    sampler,    \* the sample that is being taken
    rows,       \* the table
    dns,        \* [key, changes, missed, crossed]: what the host resolves to, and
                \* whether one change or another was not recorded, two lookups crossed
    sfu,        \* [announced, since, starts]: the address found at its start, and the rows there were
    recorder,   \* the watcher and the page
    troubles    \* bound

counted == <<source, memory, sampler>>
addresses == <<dns, sfu, recorder>>
vars == <<kind, counted, rows, addresses, troubles>>

\* None is not a verdict.
Judged == None # "ok"

Kinds == {"calls", "synapse", "address"}
Recorders == {"watcher", "page"}
Zero == [c \in Counters |-> 0]
Minus(a, b) == [c \in Counters |-> a[c] - b[c]]

Fails == troubles < MaxTroubles /\ troubles' = troubles + 1
Works == UNCHANGED troubles

---------------------------------------------------------------------------
(* The process that is read.                                                 *)
Happens ==
    /\ kind # "address"
    /\ \E c \in Counters :
         /\ source.ever[c] < MaxCount
         /\ source' = [source EXCEPT !.count[c] = @ + 1, !.ever[c] = @ + 1]
    /\ UNCHANGED <<kind, memory, sampler, rows, addresses, troubles>>

SourceStarts ==
    /\ kind # "address" /\ source.life < MaxLives
    /\ source' = [source EXCEPT !.count = Zero, !.life = @ + 1]
    /\ UNCHANGED <<kind, memory, sampler, rows, addresses, troubles>>

---------------------------------------------------------------------------
NoSample == [at |-> "idle", reading |-> None, row |-> None]

(* What was read of a process, and the process as it was.  A counter that an *)
(* answer lacks reads as zero (ParseMetrics, single, sumBy).                 *)
Reading(present, start) ==
    [seen  |-> [c \in Counters |-> IF c \in present THEN source.count[c] ELSE 0],
     start |-> start, of |-> source]

(* Nothing was lacking.                                                      *)
Whole(r) == r.seen = r.of.count /\ r.start = r.of.life

(* A read that fails leaves nothing.                                         *)
Read(k, readings) ==
    /\ kind = k /\ sampler.at = "idle" /\ Len(rows) < MaxRows
    /\ \/ \E r \in readings :
            /\ sampler' = [NoSample EXCEPT !.at = "read", !.reading = r]
            /\ IF Whole(r) THEN Works ELSE Fails
       \/ Fails /\ UNCHANGED sampler
    /\ UNCHANGED <<kind, source, memory, rows, addresses>>

(* Any counter found will do; the call server says no start.                 *)
ReadSFU == Read("calls", {Reading(P, source.life) : P \in SUBSET Counters})

(* Without its CPU time and its start it is not a Synapse.                   *)
ReadSynapse ==
    Read("synapse", {r \in {Reading(P, s) : P \in SUBSET Counters, s \in {source.life, 0}} :
                       r.seen[CPU] # 0 \/ r.start # 0})

Row(d, prev, cur) ==
    [d |-> d, reading |-> cur, from |-> IF prev = None THEN cur ELSE prev]

\* Fault: a restart of the call server is not noticed.
RestartedFault(prev, cur) == FALSE

(* Any counter that went back means a restart: one alone may be zero on both *)
(* sides of it.                                                              *)
Restarted(prev, cur) == \E c \in Counters : cur.seen[c] < prev.seen[c]

(* NewSample: the first sample counts nothing, the first after a restart all *)
(* the new process counted, any other what was added.                        *)
NewSample(prev, cur) ==
    Row(IF prev = None THEN Zero
        ELSE IF Restarted(prev, cur) THEN cur.seen
        ELSE Minus(cur.seen, prev.seen), prev, cur)

(* LatestCounters is asked after the reading was taken.                      *)
Previous ==
    /\ kind = "calls" /\ sampler.at = "read"
    /\ \/ /\ Works
          /\ LET prev == IF rows = <<>> THEN None ELSE Last(rows).reading
             IN  sampler' = [sampler EXCEPT !.at = "record", !.row = NewSample(prev, sampler.reading)]
       \/ Fails /\ sampler' = NoSample
    /\ UNCHANGED <<kind, source, memory, rows, addresses>>

(* Between refuses two readings of different lives, and when the CPU time    *)
(* went back; what else went back counts nothing.                            *)
Between(a, b) ==
    IF a.start = b.start /\ a.seen[CPU] <= b.seen[CPU]
      THEN Row([c \in Counters |-> IF a.seen[c] < b.seen[c] THEN b.seen[c] - a.seen[c] ELSE 0], a, b)
      ELSE None

(* Once: the new reading takes the place of the old one whatever becomes of  *)
(* the row; the first one has nothing to be compared with.                   *)
Pair ==
    /\ kind = "synapse" /\ sampler.at = "read"
    /\ memory' = sampler.reading
    /\ LET row == IF memory = None THEN None ELSE Between(memory, sampler.reading)
       IN  sampler' = IF row = None THEN NoSample ELSE [sampler EXCEPT !.at = "record", !.row = row]
    /\ UNCHANGED <<kind, source, rows, addresses, troubles>>

Record ==
    /\ sampler.at = "record" /\ sampler' = NoSample
    /\ \/ rows' = Append(rows, sampler.row) /\ Works
       \/ Fails /\ UNCHANGED rows
    /\ UNCHANGED <<kind, source, memory, addresses>>

(* History: the rows there are, added up (SamplesSince, Daily, Sum).         *)
Added[i \in 0..Len(rows)] ==
    IF i = 0 THEN Zero ELSE [c \in Counters |-> Added[i - 1][c] + rows[i].d[c]]

Sum == Added[Len(rows)]

---------------------------------------------------------------------------
(* The address.  What the resolver answers is a set, in any order.           *)
\* Fault: the first address of the answer stands for all.
AddressKeyFault(answer) == {Head(answer)}

AddressKey(answer) == ToSet(answer)

(* What is announced is what clients reach, or nobody could know better: the *)
(* newest row is not of today's address, or one came and went unrecorded.    *)
Sound(d, s, r) == s.announced = d.key \/ d.missed \/ r = <<>> \/ Last(r).key # d.key

(* A verdict holds when it was so at some moment while it was made.          *)
Witness(d, s, r) == [q \in Recorders |->
    IF recorder[q].at = "judge" THEN [recorder[q] EXCEPT !.good = @ \/ Sound(d, s, r)] ELSE recorder[q]]

Moves(answer) ==
    /\ kind = "address" /\ dns.changes < MaxChanges /\ ToSet(answer) # dns.key
    /\ dns' = [dns EXCEPT !.key = ToSet(answer), !.changes = @ + 1,
                          !.missed = @ \/ rows = <<>> \/ Last(rows).key # dns.key]
    /\ recorder' = Witness(dns', sfu, rows)
    /\ UNCHANGED <<kind, counted, rows, sfu, troubles>>

(* RestartSFU, or the hook after an upgrade: the address is found at the     *)
(* start and never again.                                                    *)
RestartSFU ==
    /\ kind = "address" /\ sfu.starts < MaxLives
    /\ sfu' = [announced |-> dns.key, since |-> Len(rows), starts |-> sfu.starts + 1]
    /\ recorder' = Witness(dns, sfu', rows)
    /\ UNCHANGED <<kind, counted, rows, dns, troubles>>

Rest == [at |-> "idle", got |-> None, newest |-> None, good |-> FALSE, verdict |-> None]
Recording(q) == recorder[q].at \in {"look", "write"}

(* observe, and the head of Status.  A failed lookup is not a change.        *)
Resolve(q) ==
    /\ kind = "address" /\ recorder[q].at = "idle" /\ Len(rows) < MaxRows
    /\ \/ /\ \E a \in {x \in Answers : ToSet(x) = dns.key} :
               recorder' = [recorder EXCEPT ![q] = [Rest EXCEPT !.at = "look", !.got = AddressKey(a)]]
          /\ dns' = [dns EXCEPT !.crossed = @ \/ \E p \in Recorders \ {q} : Recording(p)]
          /\ Works
       \/ Fails /\ recorder' = [recorder EXCEPT ![q] = Rest] /\ UNCHANGED dns
    /\ UNCHANGED <<kind, counted, rows, sfu>>

Leaves(q) == IF q = "page" THEN "newest" ELSE "idle"

(* Store.Record: the newest row is looked up, then a row is added or the     *)
(* newest one extended; no transaction holds the two together.               *)
Look(q) ==
    /\ recorder[q].at = "look"
    /\ \/ recorder' = [recorder EXCEPT ![q].at = "write",
                          ![q].newest = IF rows = <<>> THEN None ELSE Last(rows).key] /\ Works
       \/ Fails /\ recorder' = [recorder EXCEPT ![q].at = Leaves(q)]
    /\ UNCHANGED <<kind, counted, rows, dns, sfu>>

Write(q) ==
    /\ recorder[q].at = "write"
    /\ \/ /\ rows' = IF recorder[q].newest = recorder[q].got THEN rows
                     ELSE Append(rows, [key |-> recorder[q].got])
          /\ recorder' = [Witness(dns, sfu, rows') EXCEPT ![q].at = Leaves(q)]
          /\ Works
       \/ Fails /\ recorder' = [recorder EXCEPT ![q].at = Leaves(q)] /\ UNCHANGED rows
    /\ UNCHANGED <<kind, counted, dns, sfu>>

(* freshness: the newest row with the number of rows, then the pod's start.  *)
Newest ==
    /\ recorder["page"].at = "newest"
    /\ recorder' = [recorder EXCEPT !["page"] =
          [@ EXCEPT !.at = "judge", !.newest = Len(rows), !.good = Sound(dns, sfu, rows)]]
    /\ UNCHANGED <<kind, counted, rows, dns, sfu, troubles>>

(* AssessFreshness                                                           *)
Verdict(n) ==
    IF n < 2 \/ Cardinality(rows[n].key) > 1 THEN "unknown"
    ELSE IF n > sfu.since THEN "stale"
    ELSE "ok"

Judge ==
    /\ recorder["page"].at = "judge"
    /\ \/ recorder' = [recorder EXCEPT !["page"].at = "idle",
                          !["page"].verdict = Verdict(recorder["page"].newest)] /\ Works
       \/ Fails /\ recorder' = [recorder EXCEPT !["page"].at = "idle", !["page"].verdict = "unknown"]
    /\ UNCHANGED <<kind, counted, rows, dns, sfu>>

---------------------------------------------------------------------------
(* MatrixCtrl starts again: what is in memory is gone.                       *)
Restart ==
    /\ Fails
    /\ memory' = None /\ sampler' = NoSample
    /\ recorder' = [q \in Recorders |-> Rest]
    /\ UNCHANGED <<kind, source, rows, dns, sfu>>

(* Samples past their retention are deleted, the oldest first.               *)
Prune ==
    /\ kind = "calls" /\ rows # <<>> /\ rows' = Tail(rows)
    /\ UNCHANGED <<kind, counted, addresses, troubles>>

Init ==
    /\ kind \in Kinds
    /\ source = [count |-> Zero, life |-> 1, ever |-> Zero]
    /\ memory = None /\ sampler = NoSample
    /\ rows = <<>>
    /\ dns \in {[key |-> ToSet(a), changes |-> 0, missed |-> FALSE, crossed |-> FALSE] : a \in Answers}
    /\ sfu = [announced |-> dns.key, since |-> 0, starts |-> 1]
    /\ recorder = [q \in Recorders |-> Rest]
    /\ troubles = 0

Next ==
    \/ Happens \/ SourceStarts \/ ReadSFU \/ ReadSynapse \/ Previous \/ Pair \/ Record \/ Prune
    \/ \E a \in Answers : Moves(a)
    \/ RestartSFU \/ \E q \in Recorders : Resolve(q) \/ Look(q) \/ Write(q)
    \/ Newest \/ Judge \/ Restart

Spec == Init /\ [][Next]_vars

---------------------------------------------------------------------------
TypeOK ==
    /\ kind \in Kinds /\ Len(rows) <= MaxRows + 1
    /\ sampler.at \in {"idle", "read", "record"}

(* Neither reading of a row lacked a counter.                                *)
Complete(row) == Whole(row.reading) /\ Whole(row.from)

(* No row counts backwards, and none says that more happened than did since  *)
(* the reading before it, of whichever life; without a restart in between it *)
(* says exactly what did, and one of Synapse spans no restart (NewSample,    *)
(* Between).  All but the first is taken out for a row made of an answer     *)
(* that lacked a counter: the code takes its zero for a restart and counts   *)
(* what the other counters hold again, or this one when it is back.          *)
CountsAreTrue(row) ==
    LET happened == Minus(row.reading.of.ever, row.from.of.ever)
        oneLife == row.reading.of.life = row.from.of.life
    IN  /\ \A c \in Counters : row.d[c] >= 0
        /\ Complete(row) =>
              /\ \A c \in Counters : row.d[c] <= happened[c]
              /\ oneLife => row.d = happened
              /\ kind = "synapse" => oneLife

(* A row is a change of the address that happened, unless two lookups went   *)
(* on at the same time: an answer in another order is none (Record,          *)
(* NextObservation, AddressKey).                                             *)
ChangesAreReal == dns.crossed \/ Len(rows) <= 1 + dns.changes

(* The histories hold nothing that did not happen, their totals count        *)
(* nothing twice (Sum, RecordSample, Once), and the page calls the announced *)
(* address current only when it was, as far as the history can tell          *)
(* (AssessFreshness).                                                        *)
HistoryIsTrue ==
    IF kind = "address"
      THEN ChangesAreReal /\ (recorder["page"].verdict = "ok" => recorder["page"].good)
      ELSE /\ \A i \in DOMAIN rows : CountsAreTrue(rows[i])
           /\ (\A i \in DOMAIN rows : Complete(rows[i])) =>
                 \A c \in Counters : Sum[c] <= source.ever[c]
=============================================================================
