------------------------ MODULE RestoreDatabaseProofs ------------------------
(* For every number of restores, aside names, replicas and failures: the    *)
(* model of restore.Database is well-typed, never loses a database, and     *)
(* implements the swap it promises (DatabaseSwap); the rows are loaded with *)
(* the service stopped, and the report says where the data is.              *)
EXTENDS RestoreDatabase, TLAPS

(* From the moment the old database has its other name until it has the old *)
(* one back or the run returns, the live name belongs to nothing or to this *)
(* run's own database.                                                      *)
Swapped  == (Undoable \cup RollBack \cup {"startRestored"}) \ {"rbStart"}
HoldsOwn == (Undoable \ {"create"}) \cup {"startRestored"}

AsideNamed   == pc # "idle" => aside \in Asides
LiveIsOwn    == pc \in Swapped => GenAt(Live) \in {None, run}
OwnIsThere   == pc \in HoldsOwn => dbs[Live] # None /\ dbs[Live].gen = run
OwnIsNobodys == pc # "idle" => run \notin precious
GensBounded  == /\ \A n \in Names : dbs[n] # None => dbs[n].gen <= run
                /\ \A g \in precious : g <= run

IInv == /\ TypeOK
        /\ AsideNamed
        /\ LiveIsOwn
        /\ OwnIsThere
        /\ OwnIsNobodys
        /\ GensBounded
        /\ NothingIsLost
-----------------------------------------------------------------------------
(* The initial state satisfies the invariant: all there is is generation 0. *)
LEMMA InitInv == Init => IInv
<1> SUFFICES ASSUME Init PROVE IInv
  OBVIOUS
<1> USE RestoreAssumption DEF RestoreAssumption, Init
<1>1. \A n \in Names : dbs[n] \in Database \cup {None}
  BY DEF Names, Database, Fillings
<1>2. \A g \in Gens : g = 0
  BY DEF Gens, Names
<1>3. TypeOK
  <2>1. dbs \in [Names -> Database \cup {None}]
    BY <1>1
  <2>2. precious \subseteq Nat
    BY <1>2
  <2>3. /\ waiting \in BOOLEAN /\ previous \in BOOLEAN /\ expired \in BOOLEAN
        /\ connected \in BOOLEAN /\ pods \in BOOLEAN /\ ready \in BOOLEAN
        /\ meddled \in BOOLEAN
    OBVIOUS
  <2>4. run \in 0..MaxRuns /\ want \in 0..MaxReplicas
    OBVIOUS
  <2> QED
    BY <2>1, <2>2, <2>3, <2>4 DEF TypeOK
<1>4. GensBounded
  BY <1>2 DEF GensBounded, Names, Gens
<1>5. AsideNamed /\ LiveIsOwn /\ OwnIsThere /\ OwnIsNobodys
  BY DEF AsideNamed, LiveIsOwn, OwnIsThere, OwnIsNobodys, Swapped, HoldsOwn,
         Undoable, RollBack
<1> QED
  BY <1>3, <1>4, <1>5 DEF IInv, NothingIsLost

(* Generations are numbers.                                                 *)
LEMMA GensTyped == ASSUME TypeOK
                   PROVE  Gens \subseteq Nat /\ GenAt(Live) \in Nat \cup {None}
  BY DEF TypeOK, Gens, GenAt, Names, Database

(* Filling an existing database leaves a database under every name.         *)
LEMMA FillTyped ==
  ASSUME TypeOK, dbs[Live] # None, NEW filling \in Fillings, Fill(filling)
  PROVE  dbs' \in [Names -> Database \cup {None}]
  BY DEF TypeOK, Fill, Names, Database

(* So does a statement about databases.                                     *)
LEMMA EffectTyped ==
  ASSUME TypeOK, aside \in Asides, NEW step \in EffectOnLoss, Effect(step)
  PROVE  dbs' \in [Names -> Database \cup {None}]
<1> USE DEF TypeOK, Names
<1>1. Fresh \in Database
  BY RestoreAssumption DEF RestoreAssumption, Fresh, Database, Fillings
<1>2. CASE step = "rename"
  BY <1>2 DEF Effect
<1>3. CASE step = "create"
  BY <1>1, <1>3 DEF Effect
<1>4. CASE step = "rbDrop"
  BY <1>4 DEF Effect
<1>5. CASE step = "rbRename"
  BY <1>5 DEF Effect
<1> QED
  BY <1>2, <1>3, <1>4, <1>5 DEF EffectOnLoss

(* Wherever an error leads, the program's own variables keep their types.   *)
LEMMA OnErrorTyped ==
  ASSUME TypeOK, NEW step \in Steps, OnError(step)
  PROVE  /\ pc' \in Steps \cup {"idle"}
         /\ waiting' = FALSE
         /\ report' \in Reports \cup {None}
         /\ sessions' \subseteq {"service", "other", "sink"}
         /\ precious' \subseteq Nat
         /\ UNCHANGED <<run, aside, want, origin>>
<1>1. pc' \in {"rbStop", "startUnchanged", "rbDrop", "idle"}
  BY DEF OnError, GoTo, Return
<1>2. waiting' = FALSE /\ UNCHANGED <<run, aside, want, origin>>
  BY DEF OnError, GoTo, Return
<1>3. report' \in Reports \cup {report}
  BY DEF OnError, GoTo, Return, Reports
<1>4. sessions' \subseteq sessions
  BY DEF OnError
<1>5. precious' \subseteq precious \cup {run}
  BY DEF OnError
<1> QED
  BY <1>1, <1>2, <1>3, <1>4, <1>5 DEF TypeOK, Steps, Early, RollBack

(* Every step keeps the types: each action in turn.                         *)
LEMMA TypeStep == ASSUME IInv, [Next]_vars PROVE TypeOK'
<1> TypeOK /\ AsideNamed /\ OwnIsThere
  BY DEF IInv
<1> USE RestoreAssumption DEF RestoreAssumption, TypeOK
<1>1. ASSUME NEW name \in Asides, Begin(name) PROVE TypeOK'
  <2>1. /\ pc' \in Steps /\ run' \in 0..MaxRuns
        /\ aside' \in Asides /\ want' \in 0..MaxReplicas
        /\ report' = None /\ failed' = {}
    BY <1>1 DEF Begin, Steps, Early
  <2>2. origin' \in Nat \cup {None} /\ precious' \subseteq Nat
    BY <1>1, GensTyped DEF Begin
  <2>3. /\ waiting' = FALSE /\ previous' = FALSE /\ expired' = FALSE
        /\ connected' = TRUE /\ meddled' = FALSE
        /\ UNCHANGED <<dbs, sessions, replicas, pods, ready>>
    BY <1>1 DEF Begin
  <2> QED
    BY <2>1, <2>2, <2>3
<1>2. CASE CheckAside
  BY <1>2 DEF CheckAside, CanDo, Return, Then, GoTo, Reports, Steps, Early,
              trouble, workload
<1>3. CASE ReadReplicas
  BY <1>3 DEF ReadReplicas, CanDo, Steps, Early, trouble, workload
<1>4. ASSUME NEW step \in Steps, Scale(step) PROVE TypeOK'
  BY <1>4 DEF Scale, CanDo, trouble
<1>5. ASSUME NEW step \in Steps, WaitGone(step) PROVE TypeOK'
  BY <1>5 DEF WaitGone, CanDo, Then, GoTo, AfterStop, StopSteps, Steps, Early,
              Undoable, RollBack, trouble, workload
<1>6. ASSUME NEW step \in Steps, WaitReady(step) PROVE TypeOK'
  <2>1. /\ pc' \in Steps \cup {"idle"}
        /\ report' \in Reports \cup {None}
        /\ precious' \subseteq Nat
    <3>1. pc' \in {"stopAgain", "idle"} /\ report' \in Reports \cup {report}
      BY <1>6 DEF WaitReady, Then, GoTo, Return, Reports
    <3>2. precious' \subseteq precious \cup {run}
      BY <1>6 DEF WaitReady, Then
    <3> QED
      BY <3>1, <3>2 DEF Steps, Undoable
  <2>2. /\ waiting' = FALSE
        /\ UNCHANGED <<run, aside, want, origin, trouble>>
        /\ UNCHANGED <<previous, dbs, sessions, workload>>
    BY <1>6 DEF WaitReady, Then, GoTo, Return
  <2> QED
    BY <2>1, <2>2 DEF trouble, workload
<1>7. CASE FindLive
  BY <1>7 DEF FindLive, CanDo, Then, GoTo, Steps, Early, Undoable, trouble, workload
<1>8. CASE OpenSink
  BY <1>8 DEF OpenSink, CanDo, Then, GoTo, Steps, Undoable, trouble, workload
<1>9. CASE Prepare
  <2>1. dbs' \in [Names -> Database \cup {None}]
    BY <1>9, FillTyped DEF Prepare, CanDo, OwnIsThere, HoldsOwn, Undoable, Fillings
  <2> QED
    BY <1>9, <2>1 DEF Prepare, CanDo, Then, GoTo, Steps, Undoable, trouble, workload
<1>10. CASE Load
  <2>1. dbs' \in [Names -> Database \cup {None}]
    BY <1>10, FillTyped DEF Load, CanDo, OwnIsThere, HoldsOwn, Undoable, Fillings
  <2> QED
    BY <1>10, <2>1 DEF Load, CanDo, Then, GoTo, Steps, Undoable, trouble, workload
<1>11. CASE Verify
  BY <1>11 DEF Verify, CanDo, Then, GoTo, Steps, Undoable, trouble, workload
<1>12. CASE MergeKept
  BY <1>12 DEF MergeKept, CanDo, Then, GoTo, Steps, trouble, workload
<1>13. ASSUME NEW step \in Steps, NEW next \in Steps, Terminate(step, next)
       PROVE  TypeOK'
  BY <1>13 DEF Terminate, CanDo, Then, GoTo, trouble, workload
<1>14. ASSUME NEW step \in Steps, Statement(step) PROVE TypeOK'
  <2>1. dbs' \in [Names -> Database \cup {None}]
    BY <1>14, EffectTyped DEF Statement, CanDo, AsideNamed, EffectOnLoss
  <2>2. previous' \in BOOLEAN
    BY <1>14 DEF Statement
  <2>3. pc' \in Steps
    BY <1>14 DEF Statement, Then, GoTo, AfterEffect, EffectOnLoss, Steps,
                 Early, Undoable, RollBack
  <2> QED
    BY <1>14, <2>1, <2>2, <2>3 DEF Statement, Then, GoTo, trouble, workload
<1>15. ASSUME NEW step \in Steps, Refuse(step) PROVE TypeOK'
  <2>1. replicas' \in 0..MaxReplicas
    BY <1>15 DEF Refuse
  <2> QED
    BY <1>15, <2>1, OnErrorTyped DEF Refuse, Fails
<1>16. ASSUME NEW step \in Steps, LoseAnswer(step) PROVE TypeOK'
  <2>1. dbs' \in [Names -> Database \cup {None}]
    BY <1>16, EffectTyped DEF LoseAnswer, CanDo, AsideNamed, EffectOnLoss
  <2> QED
    BY <1>16, <2>1, OnErrorTyped DEF LoseAnswer, Fails, workload
<1>17. CASE Expire
  BY <1>17 DEF Expire, runner, workload
<1>18. CASE Crash
  BY <1>18 DEF Crash, Return, Reports, trouble, workload
<1>19. CASE PodsFollow
  BY <1>19 DEF PodsFollow, runner, trouble
<1>20. CASE ServiceConnects
  BY <1>20 DEF ServiceConnects, Fill, Database, Fillings, Names, runner,
               trouble, workload
<1>21. CASE StatusUpdate
  BY <1>21 DEF StatusUpdate, runner, trouble
<1>22. CASE OtherConnects
  BY <1>22 DEF OtherConnects, runner, trouble, workload
<1>23. ASSUME NEW n \in 0..MaxReplicas, ScaleOutside(n) PROVE TypeOK'
  BY <1>23 DEF ScaleOutside, runner, trouble
<1>24. CASE UNCHANGED vars
  BY <1>24 DEF vars, runner, trouble, workload
<1> QED
  BY <1>1, <1>2, <1>3, <1>4, <1>5, <1>6, <1>7, <1>8, <1>9, <1>10, <1>11,
     <1>12, <1>13, <1>14, <1>15, <1>16, <1>17, <1>18, <1>19, <1>20, <1>21,
     <1>22, <1>23, <1>24
  DEF Next, Work, Environment, Steps, Early, Undoable, RollBack

-----------------------------------------------------------------------------
(* Steps that move no database keep the invariant, as long as the step they *)
(* lead to asks for nothing that does not hold already.                     *)
LEMMA QuietStep ==
  ASSUME IInv, TypeOK', UNCHANGED <<precious, run, aside>>,
         \A n \in Names : /\ dbs'[n] = None <=> dbs[n] = None
                          /\ dbs[n] # None => dbs'[n].gen = dbs[n].gen,
         pc # "idle" \/ pc' = "idle",
         pc' \in Swapped => GenAt(Live) \in {None, run},
         pc' \in HoldsOwn => dbs[Live] # None /\ dbs[Live].gen = run
  PROVE  IInv'
<1> Live \in Names
  BY DEF Names
<1>1. AsideNamed' /\ OwnIsNobodys'
  BY DEF IInv, AsideNamed, OwnIsNobodys
<1>2. LiveIsOwn' /\ OwnIsThere'
  BY DEF LiveIsOwn, OwnIsThere, GenAt
<1>3. GensBounded' /\ NothingIsLost'
  BY DEF IInv, GensBounded, NothingIsLost, Gens
<1> QED
  BY <1>1, <1>2, <1>3 DEF IInv

(* When the service has the new database, its generation is worth keeping.  *)
LEMMA HandOver ==
  ASSUME IInv, TypeOK', pc = "startRestored", pc' = "idle",
         UNCHANGED <<run, aside, dbs>>, precious' = precious \cup {run}
  PROVE  IInv'
<1>1. run \in Gens
  BY DEF IInv, OwnIsThere, HoldsOwn, Gens, Names
<1>2. NothingIsLost' /\ GensBounded'
  BY <1>1 DEF IInv, NothingIsLost, GensBounded, Gens, TypeOK
<1>3. AsideNamed' /\ LiveIsOwn' /\ OwnIsThere' /\ OwnIsNobodys'
  BY DEF AsideNamed, LiveIsOwn, OwnIsThere, OwnIsNobodys, Swapped, HoldsOwn,
         Undoable, RollBack
<1> QED
  BY <1>2, <1>3 DEF IInv

(* Filling moves no database.                                               *)
LEMMA FillMovesNothing ==
  ASSUME TypeOK, dbs[Live] # None, NEW filling \in Fillings, Fill(filling)
  PROVE  \A n \in Names : /\ dbs'[n] = None <=> dbs[n] = None
                          /\ dbs[n] # None => dbs'[n].gen = dbs[n].gen
<1>1. dbs[Live] \in Database
  BY DEF TypeOK, Names
<1>2. /\ [dbs[Live] EXCEPT !.filled = filling] \in Database
      /\ [dbs[Live] EXCEPT !.filled = filling].gen = dbs[Live].gen
  BY <1>1 DEF Database
<1>3. dbs' = [dbs EXCEPT ![Live] = [dbs[Live] EXCEPT !.filled = filling]]
  BY DEF Fill
<1> QED
  BY <1>2, <1>3, RestoreAssumption DEF RestoreAssumption, TypeOK, Names

(* A statement loses nothing: the renames only move, and the drop meets     *)
(* nothing but what this run created.                                       *)
LEMMA EffectLosesNothing ==
  ASSUME IInv, NEW step \in EffectOnLoss, pc = step, Accepts(step), Effect(step),
         UNCHANGED <<precious, run, aside>>
  PROVE  /\ NothingIsLost' /\ GensBounded'
         /\ step = "create" => dbs'[Live] # None /\ dbs'[Live].gen = run
         /\ step \in {"rename", "rbDrop"} => dbs'[Live] = None
<1> USE RestoreAssumption DEF RestoreAssumption, Names
<1>1. TypeOK /\ aside \in Asides /\ GensBounded /\ NothingIsLost /\ run \notin precious
  BY DEF IInv, AsideNamed, OwnIsNobodys, EffectOnLoss
<1>2. CASE step = "rename"
  <2>1. dbs' = [dbs EXCEPT ![aside] = dbs[Live], ![Live] = None]
    BY <1>2 DEF Effect
  <2>2. dbs[aside] = None /\ dbs[Live] # None
    BY <1>2 DEF Accepts
  <2> QED
    BY <1>1, <1>2, <2>1, <2>2 DEF TypeOK, GensBounded, NothingIsLost, Gens
<1>3. CASE step = "create"
  <2>1. dbs' = [dbs EXCEPT ![Live] = Fresh] /\ dbs[Live] = None
    BY <1>3 DEF Effect, Accepts
  <2>2. Fresh # None /\ Fresh.gen = run
    BY <1>1 DEF Fresh, Database, Fillings, TypeOK
  <2> QED
    BY <1>1, <1>3, <2>1, <2>2 DEF TypeOK, GensBounded, NothingIsLost, Gens
<1>4. CASE step = "rbDrop"
  <2>1. dbs' = [dbs EXCEPT ![Live] = None]
    BY <1>4 DEF Effect
  <2>2. dbs[Live] = None \/ dbs[Live].gen = run
    BY <1>1, <1>4 DEF IInv, LiveIsOwn, Swapped, RollBack, GenAt, TypeOK, Database
  <2>3. dbs'[Live] = None /\ \A n \in Asides : dbs'[n] = dbs[n]
    BY <1>1, <2>1 DEF TypeOK
  <2>4. GensBounded'
    BY <1>1, <2>3 DEF GensBounded
  <2>5. \A g \in precious : \E n \in Asides : dbs[n] # None /\ dbs[n].gen = g
    BY <1>1, <2>2 DEF NothingIsLost, Gens
  <2> QED
    <3>1. NothingIsLost'
      BY <2>3, <2>5 DEF NothingIsLost, Gens
    <3> QED
      BY <1>4, <2>3, <2>4, <3>1
<1>5. CASE step = "rbRename"
  <2>1. dbs' = [dbs EXCEPT ![Live] = dbs[aside], ![aside] = None]
    BY <1>5 DEF Effect
  <2>2. dbs[Live] = None /\ dbs[aside] # None
    BY <1>5 DEF Accepts
  <2> QED
    BY <1>1, <1>5, <2>1, <2>2 DEF TypeOK, GensBounded, NothingIsLost, Gens
<1> QED
  BY <1>2, <1>3, <1>4, <1>5 DEF EffectOnLoss

(* Every step keeps the invariant.                                          *)
LEMMA InvStep == ASSUME IInv, [Next]_vars PROVE IInv'
<1>0. TypeOK'
  BY TypeStep
<1> TypeOK /\ AsideNamed /\ LiveIsOwn /\ OwnIsThere /\ OwnIsNobodys /\ GensBounded /\ NothingIsLost
  BY DEF IInv
<1> USE <1>0 DEF Undoable, RollBack, Swapped, HoldsOwn, LiveIsOwn, OwnIsThere
<1>1. ASSUME NEW name \in Asides, Begin(name) PROVE IInv'
  <2>1. AsideNamed' /\ LiveIsOwn' /\ OwnIsThere'
    BY <1>1 DEF Begin, AsideNamed
  <2>2. \A g \in Gens : g <= run
    BY DEF GensBounded, Gens
  <2>3. OwnIsNobodys' /\ GensBounded'
    BY <1>1, <2>2 DEF Begin, OwnIsNobodys, GensBounded, TypeOK, Names, Database
  <2>4. NothingIsLost'
    BY <1>1 DEF Begin, NothingIsLost, Gens
  <2> QED
    BY <2>1, <2>3, <2>4 DEF IInv
<1>2. CASE CheckAside
  BY <1>2, QuietStep DEF CheckAside, CanDo, Return, Then, GoTo
<1>3. CASE ReadReplicas
  BY <1>3, QuietStep DEF ReadReplicas, CanDo
<1>4. ASSUME NEW step \in Steps, Scale(step) PROVE IInv'
  BY <1>4, QuietStep DEF Scale, CanDo, Steps, Early
<1>5. ASSUME NEW step \in Steps, WaitGone(step) PROVE IInv'
  BY <1>5, QuietStep DEF WaitGone, CanDo, Then, GoTo, StopSteps, AfterStop
<1>6. ASSUME NEW step \in Steps, WaitReady(step) PROVE IInv'
  <2>1. CASE step = "startRestored"
    BY <1>6, <2>1, HandOver DEF WaitReady, CanDo, Return
  <2>2. CASE step # "startRestored"
    BY <1>6, <2>2, QuietStep DEF WaitReady, CanDo, Return, Then, GoTo, StartSteps
  <2> QED
    BY <2>1, <2>2
<1>7. CASE FindLive
  BY <1>7, QuietStep DEF FindLive, CanDo, Then, GoTo, GenAt
<1>8. CASE OpenSink
  BY <1>8, QuietStep DEF OpenSink, CanDo, Then, GoTo
<1>9. CASE Prepare
  BY <1>9, FillMovesNothing, QuietStep DEF Prepare, CanDo, Then, GoTo, Fillings
<1>10. CASE Load
  BY <1>10, FillMovesNothing, QuietStep DEF Load, CanDo, Then, GoTo, Fillings
<1>11. CASE Verify
  BY <1>11, QuietStep DEF Verify, CanDo, Then, GoTo
<1>12. CASE MergeKept
  BY <1>12, QuietStep DEF MergeKept, CanDo, Then, GoTo
<1>13. ASSUME NEW step \in Steps, NEW next \in Steps, Terminate(step, next),
              <<step, next>> \in {<<"terminate", "exists">>,
                                 <<"terminateAgain", "open">>,
                                 <<"rbTerminate", "rbDrop">>}
       PROVE  IInv'
  BY <1>13, QuietStep DEF Terminate, CanDo, Then, GoTo
<1>14. ASSUME NEW step \in Steps, Statement(step) PROVE IInv'
  <2>1. /\ NothingIsLost' /\ GensBounded'
        /\ step = "create" => dbs'[Live] # None /\ dbs'[Live].gen = run
        /\ step \in {"rename", "rbDrop"} => dbs'[Live] = None
    BY <1>14, EffectLosesNothing DEF Statement, CanDo, Then, GoTo
  <2>2. AsideNamed' /\ OwnIsNobodys'
    BY <1>14 DEF Statement, CanDo, Then, GoTo, AsideNamed, OwnIsNobodys,
                 AfterEffect, EffectOnLoss
  <2>3. LiveIsOwn' /\ OwnIsThere'
    BY <1>14, <2>1 DEF Statement, CanDo, Then, GoTo, GenAt, AfterEffect, EffectOnLoss
  <2> QED
    BY <2>1, <2>2, <2>3 DEF IInv
<1>15. ASSUME NEW step \in Steps, Refuse(step) PROVE IInv'
  <2>1. CASE step = "startRestored"
    BY <1>15, <2>1, HandOver DEF Refuse, Fails, OnError, Return, Early
  <2>2. CASE step # "startRestored"
    BY <1>15, <2>2, QuietStep DEF Refuse, Fails, OnError, Return, GoTo, Steps, Early
  <2> QED
    BY <2>1, <2>2
<1>16. ASSUME NEW step \in Steps, LoseAnswer(step) PROVE IInv'
  <2>1. UNCHANGED <<precious, run, aside>> /\ pc = step /\ step \in EffectOnLoss
    BY <1>16 DEF LoseAnswer, CanDo, OnError, Return, GoTo, EffectOnLoss, Early
  <2>2. pc' = CASE step = "rename" -> "startUnchanged"
                [] step = "create" -> "rbStop"
                [] OTHER -> "idle"
    BY <1>16, <2>1 DEF LoseAnswer, OnError, Return, GoTo, EffectOnLoss, Early
  <2>3. CASE UNCHANGED dbs
    BY <2>1, <2>2, <2>3, QuietStep DEF EffectOnLoss
  <2>4. CASE Accepts(step) /\ Effect(step)
    <3>1. /\ NothingIsLost' /\ GensBounded'
          /\ step = "create" => dbs'[Live] # None /\ dbs'[Live].gen = run
      BY <2>1, <2>4, EffectLosesNothing
    <3>2. AsideNamed' /\ OwnIsNobodys'
      BY <2>1, <2>2 DEF AsideNamed, OwnIsNobodys, EffectOnLoss
    <3>3. LiveIsOwn' /\ OwnIsThere'
      BY <2>1, <2>2, <3>1 DEF GenAt, EffectOnLoss
    <3> QED
      BY <3>1, <3>2, <3>3 DEF IInv
  <2> QED
    BY <1>16, <2>3, <2>4 DEF LoseAnswer
<1>17. CASE Expire
  BY <1>17, QuietStep DEF Expire, runner
<1>18. CASE Crash
  BY <1>18, QuietStep DEF Crash, Return
<1>19. CASE PodsFollow
  BY <1>19, QuietStep DEF PodsFollow, runner
<1>20. CASE ServiceConnects
  BY <1>20, FillMovesNothing, QuietStep DEF ServiceConnects, Fillings, runner
<1>21. CASE StatusUpdate
  BY <1>21, QuietStep DEF StatusUpdate, runner
<1>22. CASE OtherConnects
  BY <1>22, QuietStep DEF OtherConnects, runner
<1>23. ASSUME NEW n \in 0..MaxReplicas, ScaleOutside(n) PROVE IInv'
  BY <1>23, QuietStep DEF ScaleOutside, runner
<1>24. CASE UNCHANGED vars
  BY <1>24, QuietStep DEF vars, runner
<1> QED
  BY <1>1, <1>2, <1>3, <1>4, <1>5, <1>6, <1>7, <1>8, <1>9, <1>10, <1>11,
     <1>12, <1>13, <1>14, <1>15, <1>16, <1>17, <1>18, <1>19, <1>20, <1>21,
     <1>22, <1>23, <1>24
  DEF Next, Work, Environment, Steps, Early

-----------------------------------------------------------------------------
(* The model of restore.Database is well-typed, however many restores run   *)
(* and whatever fails.                                                      *)
THEOREM TypeCorrect == Spec => []TypeOK
<1>1. Init => IInv
  BY InitInv
<1>2. IInv /\ [Next]_vars => IInv'
  BY InvStep
<1>3. IInv => TypeOK
  BY DEF IInv
<1> QED
  BY <1>1, <1>2, <1>3, PTL DEF Spec

(* "The old database is renamed, never dropped": no database that existed   *)
(* when a restore began, and none a restore completed, is ever lost, through*)
(* any interleaving of failures, lost answers, expiries, crashes and rerun  *)
(* restores.                                                                *)
THEOREM DataSafe == Spec => []NothingIsLost
<1>1. Init => IInv
  BY InitInv
<1>2. IInv /\ [Next]_vars => IInv'
  BY InvStep
<1>3. IInv => NothingIsLost
  BY DEF IInv
<1> QED
  BY <1>1, <1>2, <1>3, PTL DEF Spec

-----------------------------------------------------------------------------
(* restore.Database implements the swap it promises: every step of the      *)
(* model is a step of DatabaseSwap or changes nothing that one sees.        *)

BeforeNew == {"checkAside", "readReplicas", "stop", "terminate", "exists",
              "rename", "create"}

(* What was set aside is somebody's data, and so is what is live before the *)
(* new database is there; no two names hold the same generation.            *)
AsidesArePrecious == \A n \in Asides : dbs[n] # None => GenAt(n) \in precious
LiveIsPrecious    == pc \in BeforeNew => GenAt(Live) \in precious \cup {None}
Distinct          == \A n, m \in Names :
                        dbs[n] # None /\ dbs[m] # None /\ GenAt(n) = GenAt(m) => n = m

Apart == /\ AsidesArePrecious
         /\ LiveIsPrecious
         /\ Distinct

(* What the abstract specification sees.                                    *)
Kept      == {GenAt(n) : n \in {m \in Asides : dbs[m] # None}}
HalfBuilt == dbs[Live] # None /\ GenAt(Live) \notin precious

-----------------------------------------------------------------------------
(* A step that moves no database, leads to no earlier step and forgets no   *)
(* data keeps the generations apart and is none of the swap's business.     *)
LEMMA QuietApart ==
  ASSUME IInv, Apart,
         UNCHANGED <<precious, run>>,
         \A n \in Names : /\ dbs'[n] = None <=> dbs[n] = None
                          /\ dbs[n] # None => dbs'[n].gen = dbs[n].gen,
         pc' \in BeforeNew => pc \in BeforeNew
  PROVE  Apart' /\ UNCHANGED <<GenAt(Live), Kept, run, HalfBuilt>>
<1>1. \A n \in Names : GenAt(n)' = GenAt(n)
  BY DEF GenAt
<1>2. Live \in Names /\ Asides \subseteq Names
  BY DEF Names
<1>3. UNCHANGED <<GenAt(Live), HalfBuilt>>
  BY <1>1, <1>2 DEF HalfBuilt
<1>4. UNCHANGED Kept
  BY <1>1, <1>2 DEF Kept
<1>5. Apart'
  BY <1>1, <1>2 DEF Apart, AsidesArePrecious, LiveIsPrecious, Distinct
<1> QED
  BY <1>3, <1>4, <1>5

(* A statement is a step of the swap: the rename sets aside, the creation   *)
(* makes a new one, the drop discards and the rename back puts back; a drop *)
(* of nothing changes nothing.                                              *)
LEMMA EffectSwaps ==
  ASSUME IInv, Apart, NEW step \in EffectOnLoss, pc = step, Accepts(step), Effect(step),
         UNCHANGED <<precious, run, aside>>, pc' \in BeforeNew => step = "rename"
  PROVE  Apart' /\ [Swap!SwapNext]_<<GenAt(Live), Kept, run, HalfBuilt>>
<1> USE RestoreAssumption DEF RestoreAssumption, Names
<1>1. TypeOK /\ aside \in Asides /\ aside # Live
  BY DEF IInv, AsideNamed, EffectOnLoss
<1>2. \A n \in Names : dbs[n] # None => dbs[n] \in Database /\ dbs[n].gen \in Nat
  BY <1>1 DEF TypeOK, Database
<1>3. CASE step = "rename"
  <2>1. dbs' = [dbs EXCEPT ![aside] = dbs[Live], ![Live] = None]
    BY <1>3 DEF Effect
  <2>2. dbs[aside] = None /\ dbs[Live] # None
    BY <1>3 DEF Accepts
  <2>3. /\ dbs'[Live] = None /\ dbs'[aside] = dbs[Live]
        /\ \A n \in Asides \ {aside} : dbs'[n] = dbs[n]
    BY <1>1, <2>1 DEF TypeOK
  <2>4. /\ GenAt(Live) \in precious /\ GenAt(Live) # None
        /\ GenAt(Live)' = None /\ ~HalfBuilt /\ ~HalfBuilt'
    BY <1>2, <1>3, <2>2, <2>3 DEF Apart, LiveIsPrecious, BeforeNew, GenAt, HalfBuilt
  <2>5. Kept' = Kept \cup {GenAt(Live)}
    BY <1>1, <2>2, <2>3 DEF Kept, GenAt
  <2>6. Apart'
    BY <1>1, <1>3, <2>2, <2>3, <2>4
    DEF Apart, AsidesArePrecious, LiveIsPrecious, Distinct, GenAt
  <2>7. Swap!SetAside
    BY <2>4, <2>5 DEF Swap!SetAside, Kept, HalfBuilt
  <2> QED
    BY <2>6, <2>7 DEF Swap!SwapNext
<1>4. CASE step = "create"
  <2>1. dbs' = [dbs EXCEPT ![Live] = Fresh] /\ dbs[Live] = None
    BY <1>4 DEF Effect, Accepts
  <2>2. Fresh # None /\ Fresh.gen = run /\ run \notin precious
    BY <1>1, <1>4 DEF Fresh, Database, Fillings, TypeOK, IInv, OwnIsNobodys
  <2>3. dbs'[Live] = Fresh /\ \A n \in Asides : dbs'[n] = dbs[n]
    BY <1>1, <2>1 DEF TypeOK
  <2>4. \A n \in Asides : dbs[n] # None => GenAt(n) \in precious /\ GenAt(n) # run
    BY <2>2 DEF Apart, AsidesArePrecious
  <2>5. GenAt(Live) = None /\ GenAt(Live)' = run /\ ~HalfBuilt /\ HalfBuilt'
    BY <2>1, <2>2, <2>3 DEF GenAt, HalfBuilt
  <2>6. Kept' = Kept /\ run \notin Kept
    BY <2>3, <2>4 DEF Kept, GenAt
  <2>7. Apart'
    BY <1>4, <2>2, <2>3, <2>4 DEF Apart, AsidesArePrecious, LiveIsPrecious, Distinct, GenAt
  <2>8. Swap!CreateNew
    BY <2>5, <2>6 DEF Swap!CreateNew, Kept, HalfBuilt
  <2> QED
    BY <2>7, <2>8 DEF Swap!SwapNext
<1>5. CASE step = "rbDrop"
  <2>1. dbs' = [dbs EXCEPT ![Live] = None]
    BY <1>5 DEF Effect
  <2>2. dbs'[Live] = None /\ \A n \in Asides : dbs'[n] = dbs[n]
    BY <1>1, <2>1 DEF TypeOK
  <2>3. GenAt(Live)' = None /\ Kept' = Kept /\ ~HalfBuilt'
    BY <2>2 DEF GenAt, Kept, HalfBuilt
  <2>4. Apart'
    BY <1>5, <2>2 DEF Apart, AsidesArePrecious, LiveIsPrecious, Distinct, GenAt
  <2>5. CASE dbs[Live] = None
    <3>1. GenAt(Live) = None /\ ~HalfBuilt
      BY <2>5 DEF GenAt, HalfBuilt
    <3> QED
      BY <2>3, <2>4, <3>1 DEF HalfBuilt
  <2>6. CASE dbs[Live] # None
    <3>1. HalfBuilt
      BY <1>5, <2>6 DEF HalfBuilt, IInv, LiveIsOwn, Swapped, RollBack, OwnIsNobodys, GenAt,
                        TypeOK, Database
    <3>2. Swap!Discard
      BY <2>3, <3>1 DEF Swap!Discard, Kept, HalfBuilt
    <3> QED
      BY <2>4, <3>2 DEF Swap!SwapNext
  <2> QED
    BY <2>5, <2>6
<1>6. CASE step = "rbRename"
  <2>1. dbs' = [dbs EXCEPT ![Live] = dbs[aside], ![aside] = None]
    BY <1>6 DEF Effect
  <2>2. dbs[Live] = None /\ dbs[aside] # None
    BY <1>6 DEF Accepts
  <2>3. /\ dbs'[Live] = dbs[aside] /\ dbs'[aside] = None
        /\ \A n \in Asides \ {aside} : dbs'[n] = dbs[n]
    BY <1>1, <2>1 DEF TypeOK
  <2>4. GenAt(aside) \in precious /\ \A n \in Asides \ {aside} :
            dbs[n] # None => GenAt(n) # GenAt(aside)
    BY <1>1, <2>2 DEF Apart, AsidesArePrecious, Distinct
  <2>5. /\ GenAt(Live) = None /\ GenAt(Live)' = GenAt(aside) /\ GenAt(aside) \in Kept
        /\ ~HalfBuilt /\ ~HalfBuilt'
    BY <1>1, <2>2, <2>3, <2>4 DEF GenAt, HalfBuilt, Kept
  <2>6. Kept' = Kept \ {GenAt(aside)}
    BY <1>1, <2>2, <2>3, <2>4 DEF Kept, GenAt
  <2>7. Apart'
    BY <1>1, <1>6, <2>2, <2>3, <2>4
    DEF Apart, AsidesArePrecious, LiveIsPrecious, Distinct, GenAt
  <2>8. Swap!PutBack
    BY <2>5, <2>6 DEF Swap!PutBack, Kept, HalfBuilt
  <2> QED
    BY <2>7, <2>8 DEF Swap!SwapNext
<1> QED
  BY <1>3, <1>4, <1>5, <1>6 DEF EffectOnLoss

(* When the service is asked to run on the new database, the swap is done.  *)
LEMMA HandOverSwaps ==
  ASSUME IInv, Apart, pc = "startRestored", pc' = "idle",
         UNCHANGED <<run, dbs>>, precious' = precious \cup {run}
  PROVE  Apart' /\ [Swap!SwapNext]_<<GenAt(Live), Kept, run, HalfBuilt>>
<1>1. GenAt(Live) = run /\ run # None
  BY RestoreAssumption
  DEF RestoreAssumption, IInv, OwnIsThere, HoldsOwn, GenAt, TypeOK
<1>2. UNCHANGED <<GenAt(Live), Kept>>
  BY DEF GenAt, Kept
<1>3. ~HalfBuilt'
  BY <1>1 DEF HalfBuilt, GenAt
<1>4. Apart'
  BY DEF Apart, AsidesArePrecious, LiveIsPrecious, BeforeNew, Distinct, GenAt
<1>5. Swap!Finish
  BY <1>1, <1>2, <1>3 DEF Swap!Finish, Kept, HalfBuilt
<1> QED
  BY <1>4, <1>5 DEF Swap!SwapNext

(* Every step of the program is a step of the swap or none of its business. *)
LEMMA SwapStep ==
  ASSUME IInv, Apart, [Next]_vars
  PROVE  Apart' /\ [Swap!SwapNext]_<<GenAt(Live), Kept, run, HalfBuilt>>
<1> DEFINE Goal == Apart' /\ [Swap!SwapNext]_<<GenAt(Live), Kept, run, HalfBuilt>>
<1> TypeOK /\ OwnIsThere
  BY DEF IInv
<1> USE DEF BeforeNew, Undoable, RollBack
<1>1. ASSUME NEW name \in Asides, Begin(name) PROVE Goal
  <2>1. /\ UNCHANGED <<GenAt(Live), Kept>>
        /\ \A n \in Names : GenAt(n)' = GenAt(n)
    BY <1>1 DEF Begin, GenAt, Kept
  <2>2. precious' = precious \cup Gens /\ dbs' = dbs /\ run' = run + 1
    BY <1>1 DEF Begin
  <2>3. \A n \in Names : dbs[n] # None => GenAt(n) \in Gens
    BY DEF GenAt, Gens
  <2>4. ~HalfBuilt'
    BY <2>2, <2>3 DEF HalfBuilt, GenAt, Names
  <2>5. Apart'
    BY <2>1, <2>2, <2>3
    DEF Apart, AsidesArePrecious, LiveIsPrecious, Distinct, GenAt, Names
  <2>6. Swap!Attempt
    BY <2>1, <2>2, <2>4 DEF Swap!Attempt, Kept, HalfBuilt
  <2> QED
    BY <2>5, <2>6 DEF Swap!SwapNext
<1>2. CASE CheckAside
  BY <1>2, QuietApart DEF CheckAside, CanDo, Return, Then, GoTo
<1>3. CASE ReadReplicas
  BY <1>3, QuietApart DEF ReadReplicas, CanDo
<1>4. ASSUME NEW step \in Steps, Scale(step) PROVE Goal
  BY <1>4, QuietApart DEF Scale
<1>5. ASSUME NEW step \in Steps, WaitGone(step) PROVE Goal
  BY <1>5, QuietApart DEF WaitGone, CanDo, Then, GoTo, StopSteps, AfterStop
<1>6. ASSUME NEW step \in Steps, WaitReady(step) PROVE Goal
  <2>1. CASE step = "startRestored"
    BY <1>6, <2>1, HandOverSwaps DEF WaitReady, CanDo, Return
  <2>2. CASE step # "startRestored"
    BY <1>6, <2>2, QuietApart DEF WaitReady, CanDo, Return, Then, GoTo, StartSteps
  <2> QED
    BY <2>1, <2>2
<1>7. CASE FindLive \/ OpenSink \/ Verify \/ MergeKept
  BY <1>7, QuietApart DEF FindLive, OpenSink, Verify, MergeKept, CanDo, Then, GoTo
<1>8. CASE Prepare
  BY <1>8, FillMovesNothing, QuietApart
  DEF Prepare, CanDo, Then, GoTo, Fillings, OwnIsThere, HoldsOwn
<1>9. CASE Load
  BY <1>9, FillMovesNothing, QuietApart
  DEF Load, CanDo, Then, GoTo, Fillings, OwnIsThere, HoldsOwn
<1>10. ASSUME NEW step \in Steps, NEW next \in Steps, Terminate(step, next),
              <<step, next>> \in {<<"terminate", "exists">>,
                                 <<"terminateAgain", "open">>,
                                 <<"rbTerminate", "rbDrop">>}
       PROVE  Goal
  BY <1>10, QuietApart DEF Terminate, CanDo, Then, GoTo
<1>11. ASSUME NEW step \in Steps, Statement(step) PROVE Goal
  <2>1. /\ pc = step /\ step \in EffectOnLoss /\ Accepts(step) /\ Effect(step)
        /\ UNCHANGED <<precious, run, aside>>
        /\ pc' \in BeforeNew => step = "rename"
    BY <1>11 DEF Statement, CanDo, Then, GoTo, AfterEffect, EffectOnLoss
  <2> QED
    BY <2>1, EffectSwaps
<1>12. ASSUME NEW step \in Steps, Refuse(step) PROVE Goal
  <2>1. CASE step = "startRestored"
    BY <1>12, <2>1, HandOverSwaps DEF Refuse, Fails, OnError, Return, Early
  <2>2. CASE step # "startRestored"
    BY <1>12, <2>2, QuietApart DEF Refuse, Fails, OnError, Return, GoTo, Steps, Early
  <2> QED
    BY <2>1, <2>2
<1>13. ASSUME NEW step \in Steps, LoseAnswer(step) PROVE Goal
  <2>1. /\ pc = step /\ step \in EffectOnLoss /\ pc' \notin BeforeNew
        /\ UNCHANGED <<precious, run, aside>>
    BY <1>13 DEF LoseAnswer, CanDo, OnError, Return, GoTo, EffectOnLoss, Early
  <2>2. CASE UNCHANGED dbs
    BY <2>1, <2>2, QuietApart
  <2>3. CASE Accepts(step) /\ Effect(step)
    BY <2>1, <2>3, EffectSwaps
  <2> QED
    BY <1>13, <2>2, <2>3 DEF LoseAnswer
<1>14. CASE Expire \/ PodsFollow \/ StatusUpdate \/ OtherConnects
  BY <1>14, QuietApart DEF Expire, PodsFollow, StatusUpdate, OtherConnects, runner
<1>15. CASE Crash
  BY <1>15, QuietApart DEF Crash, Return
<1>16. CASE ServiceConnects
  BY <1>16, FillMovesNothing, QuietApart DEF ServiceConnects, Fillings, runner
<1>17. ASSUME NEW n \in 0..MaxReplicas, ScaleOutside(n) PROVE Goal
  BY <1>17, QuietApart DEF ScaleOutside, runner
<1>18. CASE UNCHANGED vars
  BY <1>18, QuietApart DEF vars, runner
<1> QED
  BY <1>1, <1>2, <1>3, <1>4, <1>5, <1>6, <1>7, <1>8, <1>9, <1>10, <1>11,
     <1>12, <1>13, <1>14, <1>15, <1>16, <1>17, <1>18
  DEF Next, Work, Environment, Steps, Early

(* A restore is a database swap, however often it is run and whatever fails *)
(* in it: it sets the live database aside whole, creates a new one where    *)
(* none is, throws away only one that was never finished, and puts back one *)
(* that was set aside.                                                      *)
THEOREM ImplementsSwap == Spec => SwapSpec
<1>1. Init => IInv /\ Apart /\ Swap!SwapInit
  <2> SUFFICES ASSUME Init PROVE IInv /\ Apart /\ Swap!SwapInit
    OBVIOUS
  <2>1. \A n \in Asides : dbs[n] = None
    BY DEF Init
  <2>2. dbs[Live] \in {None, [gen |-> 0, filled |-> "loaded"]} /\ precious = Gens
    BY DEF Init, Names
  <2>3. [gen |-> 0, filled |-> "loaded"] # None
    BY RestoreAssumption DEF RestoreAssumption, Database, Fillings
  <2>4. dbs[Live] # None => GenAt(Live) = 0 /\ GenAt(Live) \in precious
    BY <2>2, <2>3 DEF GenAt, Gens, Names
  <2>5. Apart
    BY <2>1 DEF Init, Apart, AsidesArePrecious, LiveIsPrecious, BeforeNew, Distinct, Names
  <2>6. /\ GenAt(Live) \in {0, None} /\ run = 0 /\ ~HalfBuilt
        /\ Kept = {}
    BY <2>1, <2>4 DEF Init, GenAt, HalfBuilt, Kept
  <2>7. Swap!SwapInit
    BY <2>6 DEF Swap!SwapInit, Kept, HalfBuilt
  <2> QED
    BY <2>5, <2>7, InitInv
<1>2. IInv /\ Apart /\ [Next]_vars => IInv' /\ Apart' /\ [Swap!SwapNext]_Swap!swapVars
  BY InvStep, SwapStep DEF Swap!swapVars, Kept, HalfBuilt
<1> QED
  BY <1>1, <1>2, PTL DEF Spec, SwapSpec, Swap!Spec

-----------------------------------------------------------------------------
(* What a restore works on and what it tells the operator.                  *)
Loading == {"prepare", "load", "verify", "mergeKept"}

(* The second stop is believed once the pods are gone, and nobody starts    *)
(* them but an operator who meddles.                                        *)
Stopped ==
    /\ pc = "stopAgain" /\ waiting => meddled \/ replicas = 0
    /\ pc \in {"terminateAgain", "open"} \cup Loading => meddled \/ (replicas = 0 /\ ~pods)

BeforeSwap == {"checkAside", "readReplicas", "stop", "terminate", "exists", "rename"}
Filled     == {"verify", "mergeKept", "startRestored"}

(* Where the data this run found is at every step: under the live name until*)
(* the rename, under the aside name from then on, and under the live name   *)
(* again when the rollback comes to its last step.  A refused rename whose  *)
(* answer was lost is the one step that leaves the program in the dark.     *)
NotYetMoved == pc \in BeforeSwap => GenAt(Live) = origin /\ ~previous
NeverMoved  == pc = "startUnchanged" /\ connected => GenAt(Live) = origin
SetAside    == pc \in Swapped => /\ previous <=> origin # None
                                 /\ previous => GenAt(aside) = origin
ToPutBack   == pc = "rbRename" => previous
PutBack     == pc = "rbStart" => GenAt(Live) = origin
WasFilled   == pc \in Filled => dbs[Live].filled = "loaded"
Untold      == pc # "idle" => report = None
Named       == report # None => aside \in Asides

Where == /\ NotYetMoved
         /\ NeverMoved
         /\ SetAside
         /\ ToPutBack
         /\ PutBack
         /\ WasFilled
         /\ Untold
         /\ Named

-----------------------------------------------------------------------------
(* The stop before loading holds until the loading is over.                 *)
LEMMA StoppedStep == ASSUME IInv, Stopped, [Next]_vars PROVE Stopped'
<1> TypeOK
  BY DEF IInv
<1> USE DEF Stopped, Loading
<1>1. ASSUME NEW name \in Asides, Begin(name) PROVE Stopped'
  BY <1>1 DEF Begin
<1>2. CASE CheckAside
  BY <1>2 DEF CheckAside, CanDo, Return, Then, GoTo
<1>3. CASE ReadReplicas
  BY <1>3 DEF ReadReplicas
<1>4. ASSUME NEW step \in Steps, Scale(step) PROVE Stopped'
  BY <1>4 DEF Scale, CanDo, StopSteps, StartSteps
<1>5. ASSUME NEW step \in Steps, WaitGone(step) PROVE Stopped'
  BY <1>5 DEF WaitGone, CanDo, Then, GoTo, StopSteps, AfterStop, workload
<1>6. ASSUME NEW step \in Steps, WaitReady(step) PROVE Stopped'
  BY <1>6 DEF WaitReady, CanDo, Then, GoTo, Return, StartSteps
<1>7. CASE FindLive \/ OpenSink \/ Prepare \/ Load \/ Verify \/ MergeKept
  BY <1>7 DEF FindLive, OpenSink, Prepare, Load, Verify, MergeKept, CanDo, Then,
              GoTo, workload
<1>8. ASSUME NEW step \in Steps, NEW next \in Steps, Terminate(step, next),
             <<step, next>> \in {<<"terminate", "exists">>,
                                <<"terminateAgain", "open">>,
                                <<"rbTerminate", "rbDrop">>}
      PROVE  Stopped'
  BY <1>8 DEF Terminate, CanDo, Then, GoTo, workload
<1>9. ASSUME NEW step \in Steps, Statement(step) PROVE Stopped'
  BY <1>9 DEF Statement, Then, GoTo, AfterEffect, EffectOnLoss
<1>10. ASSUME NEW step \in Steps, Refuse(step) \/ LoseAnswer(step) PROVE Stopped'
  <2>1. pc' \in {"rbStop", "startUnchanged", "rbDrop", "idle"}
    BY <1>10 DEF Refuse, LoseAnswer, OnError, GoTo, Return
  <2> QED
    BY <2>1
<1>11. CASE Expire \/ Crash
  BY <1>11 DEF Expire, Crash, Return, runner, workload
<1>12. CASE PodsFollow
  BY <1>12 DEF PodsFollow, runner, TypeOK
<1>13. CASE ServiceConnects \/ StatusUpdate \/ OtherConnects
  BY <1>13 DEF ServiceConnects, StatusUpdate, OtherConnects, runner, workload
<1>14. ASSUME NEW n \in 0..MaxReplicas, ScaleOutside(n) PROVE Stopped'
  BY <1>14 DEF ScaleOutside, runner
<1>15. CASE UNCHANGED vars
  BY <1>15 DEF vars, runner, workload
<1> QED
  BY <1>1, <1>2, <1>3, <1>4, <1>5, <1>6, <1>7, <1>8, <1>9, <1>10, <1>11,
     <1>12, <1>13, <1>14, <1>15
  DEF Next, Work, Environment, Steps, Early, Undoable, RollBack

(* "Loading under a running server would race it": the rows go into the     *)
(* database this run created, with no pod of the service there, unless      *)
(* somebody else scaled the workload during the run.                        *)
THEOREM LoadedAlone == Spec => []LoadsAlone
<1>1. Init => IInv /\ Stopped
  BY InitInv DEF Init, Stopped, Loading
<1>2. IInv /\ Stopped /\ [Next]_vars => IInv' /\ Stopped'
  BY InvStep, StoppedStep
<1>3. IInv /\ Stopped => LoadsAlone
  BY DEF IInv, OwnIsThere, HoldsOwn, Undoable, Stopped, Loading, LoadsAlone
<1> QED
  BY <1>1, <1>2, <1>3, PTL DEF Spec

-----------------------------------------------------------------------------
(* Steps that move no database leave every generation where it is.          *)
LEMMA GensStay ==
  ASSUME IInv, UNCHANGED aside,
         \A n \in Names : /\ dbs'[n] = None <=> dbs[n] = None
                          /\ dbs[n] # None => dbs'[n].gen = dbs[n].gen
  PROVE  /\ GenAt(Live)' = GenAt(Live)
         /\ pc # "idle" => GenAt(aside)' = GenAt(aside)
  BY DEF IInv, AsideNamed, GenAt, Names

(* What a statement does to the two names of a run.                         *)
LEMMA EffectMoves ==
  ASSUME IInv, NEW step \in EffectOnLoss, pc = step, Accepts(step), Effect(step),
         UNCHANGED <<run, aside>>
  PROVE  /\ step = "rename" => GenAt(aside)' = GenAt(Live) /\ GenAt(Live) # None
         /\ step \in {"create", "rbDrop"} => GenAt(aside)' = GenAt(aside)
         /\ step = "rbDrop" => GenAt(Live)' = None
         /\ step = "rbRename" => GenAt(Live)' = GenAt(aside)
<1> USE RestoreAssumption DEF RestoreAssumption, Names, GenAt
<1>1. TypeOK /\ aside \in Asides
  BY DEF IInv, AsideNamed, EffectOnLoss
<1>2. CASE step = "rename"
  <2>1. dbs' = [dbs EXCEPT ![aside] = dbs[Live], ![Live] = None] /\ dbs[Live] # None
    BY <1>2 DEF Effect, Accepts
  <2>2. dbs[Live] \in Database
    BY <2>1 DEF IInv, TypeOK
  <2>3. dbs[Live].gen # None
    BY <2>2 DEF Database
  <2>4. dbs'[aside] = dbs[Live]
    BY <1>1, <2>1 DEF TypeOK
  <2> QED
    BY <1>2, <2>1, <2>3, <2>4
<1>3. CASE step = "create"
  <2>1. dbs' = [dbs EXCEPT ![Live] = Fresh]
    BY <1>3 DEF Effect
  <2> QED
    BY <1>1, <1>3, <2>1 DEF TypeOK
<1>4. CASE step = "rbDrop"
  <2>1. dbs' = [dbs EXCEPT ![Live] = None]
    BY <1>4 DEF Effect
  <2> QED
    BY <1>1, <1>4, <2>1 DEF TypeOK
<1>5. CASE step = "rbRename"
  <2>1. dbs' = [dbs EXCEPT ![Live] = dbs[aside], ![aside] = None]
    BY <1>5 DEF Effect
  <2> QED
    BY <1>1, <1>5, <2>1 DEF TypeOK
<1> QED
  BY <1>2, <1>3, <1>4, <1>5 DEF EffectOnLoss

(* A step that moves no database and sets no database aside keeps track of  *)
(* where the data is, as long as it leads where the data already is.        *)
LEMMA QuietWhere ==
  ASSUME IInv, Where, pc # "idle" \/ UNCHANGED <<pc, report>>,
         UNCHANGED <<run, aside, origin, previous>>,
         connected' => connected,
         \A n \in Names : /\ dbs'[n] = None <=> dbs[n] = None
                          /\ dbs[n] # None => dbs'[n].gen = dbs[n].gen,
         pc' \in BeforeSwap => pc \in BeforeSwap,
         pc' = "startUnchanged" => pc \in {"startUnchanged", "rename"},
         pc' \in Swapped => pc \in Swapped \/ (pc = "exists" /\ GenAt(Live) = None),
         pc' = "rbRename" => pc = "rbRename",
         pc' = "rbStart" => pc = "rbStart",
         pc' \in Filled => dbs'[Live].filled = "loaded",
         pc' # "idle" => UNCHANGED report
  PROVE  Where'
<1>1. GenAt(Live)' = GenAt(Live) /\ (pc # "idle" => GenAt(aside)' = GenAt(aside))
  BY GensStay
<1>2. NotYetMoved' /\ NeverMoved' /\ PutBack' /\ ToPutBack'
  BY <1>1 DEF Where, NotYetMoved, NeverMoved, PutBack, ToPutBack, BeforeSwap
<1>3. SetAside'
  BY <1>1 DEF Where, NotYetMoved, SetAside, BeforeSwap, Swapped, Undoable, RollBack
<1>4. WasFilled' /\ Untold' /\ Named'
  BY DEF Where, WasFilled, Untold, Named, IInv, AsideNamed
<1> QED
  BY <1>2, <1>3, <1>4 DEF Where

(* At first nothing runs and nothing was told.                              *)
LEMMA WhereInit == Init => Where
  BY DEF Init, Where, NotYetMoved, NeverMoved, SetAside, ToPutBack, PutBack,
         WasFilled, Untold, Named, BeforeSwap, Swapped, Filled, Undoable, RollBack

(* Every step keeps track of where the data is.                             *)
LEMMA WhereStep == ASSUME IInv, Where, [Next]_vars PROVE Where'
<1> TypeOK
  BY DEF IInv
<1> USE DEF BeforeSwap, Swapped, Undoable, RollBack, Filled
<1>1. ASSUME NEW name \in Asides, Begin(name) PROVE Where'
  <2>1. GenAt(Live)' = GenAt(Live)
    BY <1>1 DEF Begin, GenAt
  <2> QED
    BY <1>1, <2>1 DEF Begin, Where, NotYetMoved, NeverMoved, SetAside, ToPutBack,
                      PutBack, WasFilled, Untold, Named
<1>2. CASE CheckAside
  BY <1>2, QuietWhere DEF CheckAside, CanDo, Return, Then, GoTo, trouble
<1>3. CASE ReadReplicas
  BY <1>3, QuietWhere DEF ReadReplicas, CanDo, trouble
<1>4. ASSUME NEW step \in Steps, Scale(step) PROVE Where'
  BY <1>4, QuietWhere DEF Scale, CanDo, Steps, Early, Where, WasFilled, trouble
<1>5. ASSUME NEW step \in Steps, WaitGone(step) PROVE Where'
  BY <1>5, QuietWhere DEF WaitGone, CanDo, Then, GoTo, StopSteps, AfterStop, trouble
<1>6. ASSUME NEW step \in Steps, WaitReady(step) PROVE Where'
  BY <1>6, QuietWhere DEF WaitReady, CanDo, Return, Then, GoTo, StartSteps, trouble
<1>7. CASE FindLive
  BY <1>7, QuietWhere DEF FindLive, CanDo, Then, GoTo, GenAt, trouble
<1>8. CASE OpenSink
  BY <1>8, QuietWhere DEF OpenSink, CanDo, Then, GoTo, trouble
<1>9. CASE Prepare
  BY <1>9, FillMovesNothing, QuietWhere
  DEF Prepare, CanDo, Then, GoTo, Fillings, trouble, IInv, OwnIsThere, HoldsOwn
<1>10. CASE Load
  <2>1. dbs[Live] # None /\ Fill("loaded")
    BY <1>10 DEF Load, CanDo, IInv, OwnIsThere, HoldsOwn
  <2>2. dbs'[Live].filled = "loaded"
    BY <2>1 DEF Fill, TypeOK, Names, Database
  <2> QED
    BY <1>10, <2>1, <2>2, FillMovesNothing, QuietWhere
    DEF Load, CanDo, Then, GoTo, Fillings, trouble
<1>11. CASE Verify
  BY <1>11, QuietWhere DEF Verify, CanDo, Then, GoTo, trouble, Where, WasFilled
<1>12. CASE MergeKept
  BY <1>12, QuietWhere DEF MergeKept, CanDo, Then, GoTo, trouble, Where, WasFilled
<1>13. ASSUME NEW step \in Steps, NEW next \in Steps, Terminate(step, next),
              <<step, next>> \in {<<"terminate", "exists">>,
                                 <<"terminateAgain", "open">>,
                                 <<"rbTerminate", "rbDrop">>}
       PROVE  Where'
  BY <1>13, QuietWhere DEF Terminate, CanDo, Then, GoTo, trouble
<1>14. ASSUME NEW step \in Steps, Statement(step) PROVE Where'
  <2>1. /\ pc = step /\ step \in EffectOnLoss /\ pc' = AfterEffect(step)
        /\ UNCHANGED <<run, aside, origin, report, connected>>
        /\ previous' = (step = "rename" \/ (previous /\ step # "rbRename"))
    BY <1>14 DEF Statement, CanDo, Then, GoTo, trouble
  <2>2. /\ step = "rename" => GenAt(aside)' = GenAt(Live) /\ GenAt(Live) # None
        /\ step \in {"create", "rbDrop"} => GenAt(aside)' = GenAt(aside)
        /\ step = "rbDrop" => GenAt(Live)' = None
        /\ step = "rbRename" => GenAt(Live)' = GenAt(aside)
    BY <1>14, <2>1, EffectMoves DEF Statement
  <2>3. CASE step = "rename"
    BY <2>1, <2>2, <2>3 DEF AfterEffect, Where, NotYetMoved, NeverMoved, SetAside,
                            ToPutBack, PutBack, WasFilled, Untold, Named
  <2>4. CASE step = "create"
    BY <2>1, <2>2, <2>4 DEF AfterEffect, Where, NotYetMoved, NeverMoved, SetAside,
                            ToPutBack, PutBack, WasFilled, Untold, Named
  <2>5. CASE step = "rbDrop"
    <3>1. /\ pc' = IF previous THEN "rbRename" ELSE "rbStart"
          /\ previous' = previous
      BY <2>1, <2>5 DEF AfterEffect, TypeOK
    <3>2. ~previous => GenAt(Live)' = origin'
      BY <2>1, <2>2, <2>5 DEF Where, SetAside
    <3> QED
      BY <2>1, <2>2, <2>5, <3>1, <3>2
      DEF Where, NotYetMoved, NeverMoved, SetAside, ToPutBack, PutBack, WasFilled,
          Untold, Named
  <2>6. CASE step = "rbRename"
    <3>1. pc' = "rbStart"
      BY <2>1, <2>6 DEF AfterEffect
    <3>2. GenAt(Live)' = origin'
      BY <2>1, <2>2, <2>6 DEF Where, SetAside, ToPutBack
    <3> QED
      BY <2>1, <2>6, <3>1, <3>2
      DEF Where, NotYetMoved, NeverMoved, SetAside, ToPutBack, PutBack, WasFilled,
          Untold, Named
  <2> QED
    BY <2>1, <2>3, <2>4, <2>5, <2>6 DEF EffectOnLoss
<1>15. ASSUME NEW step \in Steps, Refuse(step) PROVE Where'
  BY <1>15, QuietWhere DEF Refuse, Fails, OnError, Return, GoTo, Steps, Early
<1>16. ASSUME NEW step \in Steps, LoseAnswer(step) PROVE Where'
  <2>1. /\ pc = step /\ step \in EffectOnLoss
        /\ UNCHANGED <<run, aside, origin, previous>>
        /\ connected' = FALSE
    BY <1>16 DEF LoseAnswer, CanDo, OnError, Return, GoTo
  <2>2. /\ pc' = CASE step = "rename" -> "startUnchanged"
                   [] step = "create" -> "rbStop"
                   [] OTHER -> "idle"
        /\ pc' # "idle" => UNCHANGED report
    BY <1>16, <2>1 DEF LoseAnswer, OnError, Return, GoTo, EffectOnLoss, Early
  <2>3. CASE UNCHANGED dbs
    BY <2>1, <2>2, <2>3, QuietWhere DEF EffectOnLoss
  <2>4. CASE Accepts(step) /\ Effect(step)
    <3>1. step \in {"create", "rbDrop"} => GenAt(aside)' = GenAt(aside)
      BY <2>1, <2>4, EffectMoves
    <3>2. aside' \in Asides
      BY <2>1 DEF IInv, AsideNamed, EffectOnLoss
    <3> QED
      BY <2>1, <2>2, <3>1, <3>2
      DEF EffectOnLoss, Where, NotYetMoved, NeverMoved, SetAside, ToPutBack,
          PutBack, WasFilled, Untold, Named
  <2> QED
    BY <1>16, <2>3, <2>4 DEF LoseAnswer
<1>17. CASE Expire
  BY <1>17, QuietWhere DEF Expire, runner, Where, WasFilled
<1>18. CASE Crash
  BY <1>18, QuietWhere DEF Crash, Return, trouble
<1>19. CASE PodsFollow
  BY <1>19, QuietWhere DEF PodsFollow, runner, trouble, Where, WasFilled
<1>20. CASE ServiceConnects
  <2>1. pc \in Filled => UNCHANGED dbs
    BY <1>20 DEF ServiceConnects, Where, WasFilled
  <2> QED
    BY <1>20, <2>1, FillMovesNothing, QuietWhere
    DEF ServiceConnects, Fillings, runner, trouble, Where, WasFilled
<1>21. CASE StatusUpdate
  BY <1>21, QuietWhere DEF StatusUpdate, runner, trouble, Where, WasFilled
<1>22. CASE OtherConnects
  BY <1>22, QuietWhere DEF OtherConnects, runner, trouble, Where, WasFilled
<1>23. ASSUME NEW n \in 0..MaxReplicas, ScaleOutside(n) PROVE Where'
  BY <1>23, QuietWhere DEF ScaleOutside, runner, trouble, Where, WasFilled
<1>24. CASE UNCHANGED vars
  BY <1>24, QuietWhere DEF vars, runner, trouble, Where, WasFilled
<1> QED
  BY <1>1, <1>2, <1>3, <1>4, <1>5, <1>6, <1>7, <1>8, <1>9, <1>10, <1>11,
     <1>12, <1>13, <1>14, <1>15, <1>16, <1>17, <1>18, <1>19, <1>20, <1>21,
     <1>22, <1>23, <1>24
  DEF Next, Work, Environment, Steps, Early

-----------------------------------------------------------------------------
(* What was reported stays true as long as nobody moves a database.         *)
LEMMA QuietReport ==
  ASSUME IInv, Where, ReportIsTrue,
         UNCHANGED <<run, aside, origin, previous, report, connected>>,
         \A n \in Names : /\ dbs'[n] = None <=> dbs[n] = None
                          /\ dbs[n] # None => dbs'[n].gen = dbs[n].gen,
         dbs[Live].filled = "loaded" => dbs'[Live].filled = "loaded"
  PROVE  ReportIsTrue'
<1>1. GenAt(Live)' = GenAt(Live)
  BY GensStay
<1>2. report # None => GenAt(aside)' = GenAt(aside)
  BY DEF Where, Named, Names, GenAt
<1>3. report = None \/ report \in Reports
  BY DEF IInv, TypeOK
<1> QED
  BY <1>1, <1>2, <1>3, RestoreAssumption DEF ReportIsTrue, RestoreAssumption, Reports

(* While a run is on its way nothing is reported.                           *)
LEMMA UntoldIsTrue == ASSUME report' = None PROVE ReportIsTrue'
  BY RestoreAssumption DEF ReportIsTrue, RestoreAssumption, Reports

(* Wherever an error ends the run, what it reports is where the data is.    *)
LEMMA RefusalIsTrue ==
  ASSUME IInv, Where, NEW step \in Steps, pc = step, OnError(step),
         UNCHANGED <<previous, connected, dbs>>
  PROVE  ReportIsTrue'
<1> UNCHANGED <<run, aside, origin>> /\ TypeOK
  BY DEF OnError, GoTo, Return, IInv
<1>1. UNCHANGED <<GenAt(Live), GenAt(aside)>>
  BY DEF GenAt
<1>2. pc # "idle" /\ report = None
  BY DEF Where, Untold, Steps, Early, Undoable, RollBack
<1>3. CASE step \in Undoable \cup {"rename", "rbTerminate"}
  BY <1>2, <1>3, UntoldIsTrue DEF OnError, GoTo, Undoable, Early
<1>4. CASE step \in {"rbStop", "rbDrop", "rbRename"}
  <2>1. report' = "blocked"
    BY <1>4 DEF OnError, Return, Undoable, Early
  <2>2. previous => GenAt(aside) = origin
    BY <1>4 DEF Where, SetAside, Swapped, RollBack
  <2> QED
    BY <1>1, <2>1, <2>2 DEF ReportIsTrue
<1>5. CASE step = "rbStart"
  <2>1. report' = "dataBack" /\ GenAt(Live) = origin
    BY <1>5 DEF OnError, Return, Undoable, Early, Where, PutBack
  <2> QED
    BY <1>1, <2>1 DEF ReportIsTrue
<1>6. CASE step = "startRestored"
  <2>1. report' = "notUp"
    BY <1>6 DEF OnError, Return, Undoable, Early
  <2>2. GenAt(Live) = run /\ dbs[Live].filled = "loaded"
    BY <1>6, RestoreAssumption
    DEF IInv, OwnIsThere, HoldsOwn, GenAt, Where, WasFilled, Filled
  <2>3. origin # None => GenAt(aside) = origin
    BY <1>6 DEF Where, SetAside, Swapped
  <2> QED
    BY <1>1, <2>1, <2>2, <2>3 DEF ReportIsTrue
<1>7. CASE step \in Early \ {"rename"}
  <2>1. report' \in {"unchanged", "error"}
    BY <1>7 DEF OnError, Return, Undoable, Early
  <2>2. connected => GenAt(Live) = origin
    BY <1>7 DEF Where, NotYetMoved, NeverMoved, BeforeSwap, Early
  <2> QED
    BY <1>1, <2>1, <2>2 DEF ReportIsTrue
<1> QED
  BY <1>3, <1>4, <1>5, <1>6, <1>7 DEF Steps, RollBack

(* Every step keeps the report true.                                        *)
LEMMA ReportStep == ASSUME IInv, Where, ReportIsTrue, [Next]_vars PROVE ReportIsTrue'
<1> TypeOK
  BY DEF IInv
<1>1. ASSUME NEW name \in Asides, Begin(name) PROVE ReportIsTrue'
  BY <1>1, UntoldIsTrue DEF Begin
<1>2. CASE CheckAside
  <2>1. CASE dbs[aside] # None
    <3>1. report' = "refused" /\ UNCHANGED <<origin, dbs>>
      BY <1>2, <2>1 DEF CheckAside, Return
    <3>2. GenAt(Live) = origin
      BY <1>2 DEF CheckAside, CanDo, Where, NotYetMoved, BeforeSwap
    <3> QED
      BY <3>1, <3>2 DEF ReportIsTrue, GenAt
  <2>2. CASE dbs[aside] = None
    BY <1>2, <2>2, QuietReport DEF CheckAside, Then, GoTo, trouble
  <2> QED
    BY <2>1, <2>2
<1>3. CASE ReadReplicas
  BY <1>3, QuietReport DEF ReadReplicas, trouble
<1>4. ASSUME NEW step \in Steps, Scale(step) PROVE ReportIsTrue'
  BY <1>4, QuietReport DEF Scale, trouble
<1>5. ASSUME NEW step \in Steps, WaitGone(step) PROVE ReportIsTrue'
  BY <1>5, QuietReport DEF WaitGone, Then, GoTo, trouble
<1>6. ASSUME NEW step \in Steps, WaitReady(step) PROVE ReportIsTrue'
  <2>1. /\ pc = step /\ step \in StartSteps
        /\ UNCHANGED <<run, aside, origin, previous, dbs, connected>>
    BY <1>6 DEF WaitReady, CanDo, Then, GoTo, Return, trouble
  <2>2. UNCHANGED <<GenAt(Live), GenAt(aside)>>
    BY <2>1 DEF GenAt
  <2>3. CASE step = "buildSchema"
    BY <1>6, <2>1, <2>3, QuietReport DEF WaitReady, Then, GoTo
  <2>4. CASE step = "startRestored"
    <3>1. report' = "restored"
      BY <1>6, <2>4 DEF WaitReady, Return
    <3>2. GenAt(Live) = run /\ dbs[Live].filled = "loaded"
      BY <2>1, <2>4 DEF IInv, OwnIsThere, HoldsOwn, GenAt, Where, WasFilled, Filled
    <3>3. origin # None => GenAt(aside) = origin
      BY <2>1, <2>4 DEF Where, SetAside, Swapped
    <3> QED
      BY <2>1, <2>2, <3>1, <3>2, <3>3 DEF ReportIsTrue
  <2>5. CASE step = "rbStart"
    <3>1. report' = "undone" /\ GenAt(Live) = origin
      BY <1>6, <2>1, <2>5 DEF WaitReady, Return, Where, PutBack
    <3> QED
      BY <2>1, <2>2, <3>1 DEF ReportIsTrue
  <2>6. CASE step = "startUnchanged"
    <3>1. report' = "unchanged" /\ (connected => GenAt(Live) = origin)
      BY <1>6, <2>1, <2>6 DEF WaitReady, Return, Where, NeverMoved
    <3> QED
      BY <2>1, <2>2, <3>1 DEF ReportIsTrue
  <2> QED
    BY <2>1, <2>3, <2>4, <2>5, <2>6 DEF StartSteps
<1>7. CASE FindLive \/ OpenSink \/ Verify \/ MergeKept
  BY <1>7, QuietReport
  DEF FindLive, OpenSink, Verify, MergeKept, Then, GoTo, trouble
<1>8. CASE Prepare \/ Load
  <2>1. report' = None
    BY <1>8 DEF Prepare, Load, CanDo, Then, GoTo, Where, Untold
  <2> QED
    BY <2>1, UntoldIsTrue
<1>9. ASSUME NEW step \in Steps, NEW next \in Steps, Terminate(step, next)
      PROVE  ReportIsTrue'
  BY <1>9, QuietReport DEF Terminate, Then, GoTo, trouble
<1>10. ASSUME NEW step \in Steps, Statement(step) PROVE ReportIsTrue'
  <2>1. report' = None
    BY <1>10 DEF Statement, CanDo, Then, GoTo, Where, Untold, EffectOnLoss
  <2> QED
    BY <2>1, UntoldIsTrue
<1>11. ASSUME NEW step \in Steps, Refuse(step) PROVE ReportIsTrue'
  BY <1>11, RefusalIsTrue DEF Refuse, Fails
<1>12. ASSUME NEW step \in Steps, LoseAnswer(step) PROVE ReportIsTrue'
  <2>1. /\ connected' = FALSE
        /\ report' \in {None, "blocked"}
    BY <1>12 DEF LoseAnswer, CanDo, OnError, Return, GoTo, EffectOnLoss, Early,
                 Undoable, Where, Untold
  <2> QED
    BY <2>1, RestoreAssumption DEF ReportIsTrue, RestoreAssumption, Reports
<1>13. CASE Expire
  BY <1>13, QuietReport DEF Expire, runner
<1>14. CASE Crash
  BY <1>14 DEF Crash, Return, ReportIsTrue
<1>15. CASE PodsFollow \/ StatusUpdate \/ OtherConnects
  BY <1>15, QuietReport DEF PodsFollow, StatusUpdate, OtherConnects, runner, trouble
<1>16. CASE ServiceConnects
  BY <1>16, FillMovesNothing, QuietReport
  DEF ServiceConnects, Fillings, runner, trouble
<1>17. ASSUME NEW n \in 0..MaxReplicas, ScaleOutside(n) PROVE ReportIsTrue'
  BY <1>17, QuietReport DEF ScaleOutside, runner, trouble
<1>18. CASE UNCHANGED vars
  BY <1>18, QuietReport DEF vars, runner, trouble
<1> QED
  BY <1>1, <1>2, <1>3, <1>4, <1>5, <1>6, <1>7, <1>8, <1>9, <1>10, <1>11,
     <1>12, <1>13, <1>14, <1>15, <1>16, <1>17, <1>18
  DEF Next, Work, Environment, Steps, Early, Undoable, RollBack

(* What the operator is told about the data is where the data is: undone    *)
(* means the old database is live again, blocked that it is under the aside *)
(* name, restored that the new one is live, full and its predecessor kept,  *)
(* for every sequence of failures, lost answers and crashes over any number *)
(* of restores.                                                             *)
THEOREM ReportTrue == Spec => []ReportIsTrue
<1>1. Init => IInv /\ Where /\ ReportIsTrue
  BY InitInv, WhereInit, RestoreAssumption
  DEF Init, RestoreAssumption, ReportIsTrue, Reports
<1>2. IInv /\ Where /\ ReportIsTrue /\ [Next]_vars => IInv' /\ Where' /\ ReportIsTrue'
  BY InvStep, WhereStep, ReportStep
<1> QED
  BY <1>1, <1>2, PTL DEF Spec

-----------------------------------------------------------------------------
(* A step after the swap that failed sent the run into the rollback, and    *)
(* the rollback asks for the replicas that were there.                      *)
Regret == failed \cap Undoable # {} => pc \in RollBack \cup {"idle"}
Wanted == pc = "rbStart" /\ waiting => meddled \/ replicas = want

(* Every step keeps to the rollback once it began.                          *)
LEMMA RegretStep ==
  ASSUME TypeOK, Regret, Wanted, [Next]_vars PROVE Regret' /\ Wanted'
<1> USE DEF Regret, Wanted, RollBack, Undoable
<1>1. ASSUME NEW name \in Asides, Begin(name) PROVE Regret' /\ Wanted'
  BY <1>1 DEF Begin
<1>2. CASE CheckAside \/ ReadReplicas \/ FindLive \/ OpenSink \/ Prepare \/ Load
           \/ Verify \/ MergeKept
  BY <1>2 DEF CheckAside, ReadReplicas, FindLive, OpenSink, Prepare, Load, Verify,
              MergeKept, CanDo, Return, Then, GoTo, trouble
<1>3. ASSUME NEW step \in Steps, Scale(step) PROVE Regret' /\ Wanted'
  BY <1>3 DEF Scale, CanDo, StopSteps, StartSteps, trouble
<1>4. ASSUME NEW step \in Steps, WaitGone(step) PROVE Regret' /\ Wanted'
  BY <1>4 DEF WaitGone, CanDo, Then, GoTo, StopSteps, AfterStop, trouble
<1>5. ASSUME NEW step \in Steps, WaitReady(step) PROVE Regret' /\ Wanted'
  BY <1>5 DEF WaitReady, CanDo, Then, GoTo, Return, StartSteps, trouble
<1>6. ASSUME NEW step \in Steps, NEW next \in Steps, Terminate(step, next),
             <<step, next>> \in {<<"terminate", "exists">>,
                                <<"terminateAgain", "open">>,
                                <<"rbTerminate", "rbDrop">>}
      PROVE  Regret' /\ Wanted'
  BY <1>6 DEF Terminate, CanDo, Then, GoTo, trouble
<1>7. ASSUME NEW step \in Steps, Statement(step) PROVE Regret' /\ Wanted'
  BY <1>7 DEF Statement, CanDo, Then, GoTo, AfterEffect, EffectOnLoss, trouble
<1>8. ASSUME NEW step \in Steps, Refuse(step) \/ LoseAnswer(step)
      PROVE  Regret' /\ Wanted'
  <2>1. pc = step /\ failed' = failed \cup {step} /\ waiting' = FALSE /\ OnError(step)
    BY <1>8 DEF Refuse, LoseAnswer, Fails, OnError, GoTo, Return
  <2>2. CASE step \in Undoable
    BY <2>1, <2>2 DEF OnError, GoTo, Early
  <2>3. CASE step \in RollBack
    BY <2>1, <2>3 DEF OnError, GoTo, Return, Early
  <2>4. CASE step \notin Undoable \cup RollBack
    BY <2>1, <2>4 DEF Steps, Early
  <2> QED
    BY <2>2, <2>3, <2>4
<1>9. CASE Expire \/ Crash
  BY <1>9 DEF Expire, Crash, Return, runner, trouble, workload
<1>10. CASE PodsFollow \/ ServiceConnects \/ StatusUpdate \/ OtherConnects
  BY <1>10 DEF PodsFollow, ServiceConnects, StatusUpdate, OtherConnects, runner,
               trouble, workload
<1>11. ASSUME NEW n \in 0..MaxReplicas, ScaleOutside(n) PROVE Regret' /\ Wanted'
  BY <1>11 DEF ScaleOutside, runner, trouble
<1>12. CASE UNCHANGED vars
  BY <1>12 DEF vars, runner, trouble, workload
<1> QED
  BY <1>1, <1>2, <1>3, <1>4, <1>5, <1>6, <1>7, <1>8, <1>9, <1>10, <1>11, <1>12
  DEF Next, Work, Environment, Steps, Early

(* The run that returns after one refused step after the swap returns from  *)
(* the last step of the rollback.                                           *)
LEMMA UndoneStep ==
  ASSUME IInv, Where, Regret, Wanted, [Next]_vars,
         report' \notin {None, "crashed"}, report = None,
         NEW bad \in Undoable, failed' = {bad},
         ~expired', connected', ~meddled'
  PROVE  report' = "undone" /\ GenAt(Live)' = origin' /\ replicas' = want'
<1> USE DEF RollBack, Undoable
<1>1. ASSUME NEW step \in Steps, WaitReady(step)
      PROVE  report' = "undone" /\ GenAt(Live)' = origin' /\ replicas' = want'
  <2>1. /\ pc = step /\ waiting /\ failed' = failed /\ meddled' = meddled
        /\ UNCHANGED <<dbs, origin, replicas, want>>
    BY <1>1 DEF WaitReady, CanDo, Then, GoTo, Return, trouble, workload
  <2>2. pc = "rbStart" /\ report' = "undone"
    BY <1>1, <2>1 DEF WaitReady, Then, GoTo, Return, Regret
  <2> QED
    BY <2>1, <2>2 DEF Where, PutBack, Wanted, GenAt
<1>2. ASSUME NEW step \in Steps, Refuse(step) \/ LoseAnswer(step) PROVE FALSE
  <2>1. pc = step /\ failed' = failed \cup {step} /\ OnError(step)
    BY <1>2 DEF Refuse, LoseAnswer, Fails
  <2>2. step = bad /\ report' = None
    BY <2>1 DEF OnError, GoTo, Early
  <2> QED
    BY <2>2
<1>3. CASE CheckAside
  BY <1>3 DEF CheckAside, CanDo, Return, Then, GoTo, Regret, trouble
<1>4. CASE Crash
  BY <1>4 DEF Crash, Return
<1>5. ASSUME NEW name \in Asides, Begin(name) PROVE FALSE
  BY <1>5 DEF Begin
<1>6. CASE ReadReplicas \/ FindLive \/ OpenSink \/ Prepare \/ Load \/ Verify \/ MergeKept
  BY <1>6 DEF ReadReplicas, FindLive, OpenSink, Prepare, Load, Verify, MergeKept,
              Then, GoTo
<1>7. ASSUME NEW step \in Steps, NEW next \in Steps,
             \/ Scale(step) \/ WaitGone(step) \/ Statement(step)
             \/ Terminate(step, next)
      PROVE  FALSE
  BY <1>7 DEF Scale, WaitGone, Statement, Terminate, Then, GoTo
<1>8. CASE \/ Expire \/ PodsFollow \/ ServiceConnects \/ StatusUpdate \/ OtherConnects
           \/ UNCHANGED vars
  BY <1>8 DEF Expire, PodsFollow, ServiceConnects, StatusUpdate, OtherConnects,
              runner, vars
<1>9. ASSUME NEW n \in 0..MaxReplicas, ScaleOutside(n) PROVE FALSE
  BY <1>9 DEF ScaleOutside, runner
<1> QED
  BY <1>1, <1>2, <1>3, <1>4, <1>5, <1>6, <1>7, <1>8, <1>9
  DEF Next, Work, Environment, Steps, Early

(* "Every failure before the last step is undone by renaming back": a run   *)
(* with one refused step after the swap, everything else working, reports   *)
(* "undone" with the old database live and the old replicas asked for.      *)
THEOREM RefusalUndone == Spec => OneRefusalIsUndone
<1>1. Init => IInv /\ Where /\ Regret /\ Wanted
  BY WhereInit, InitInv DEF Init, Regret, Wanted
<1>2. IInv /\ Where /\ Regret /\ Wanted /\ [Next]_vars
      => IInv' /\ Where' /\ Regret' /\ Wanted'
  BY InvStep, WhereStep, RegretStep DEF IInv
<1>3. IInv /\ Where /\ Regret /\ Wanted /\ [Next]_vars =>
        [ /\ report' \notin {None, "crashed"} /\ report = None
          /\ \E step \in Undoable : failed' = {step}
          /\ ~expired' /\ connected' /\ ~meddled'
          => report' = "undone" /\ GenAt(Live)' = origin' /\ replicas' = want' ]_vars
  BY UndoneStep
<1> QED
  BY <1>1, <1>2, <1>3, PTL DEF Spec, OneRefusalIsUndone

=============================================================================
