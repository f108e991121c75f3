----------------------------- MODULE Panel_proofs -----------------------------
(***************************************************************************)
(* The page's refreshing goes on, for every number of processes, changes   *)
(* and refreshes after actions.                                            *)
(***************************************************************************)
EXTENDS Panel, TLAPS

(* An action is posted only while there is room for its refresh.           *)
Room == post.at # "none" => follow < MaxFollow

IInv == TypeOK /\ Room /\ RefreshGoesOn

LEMMA Bounds ==
  /\ 0 \in States /\ 0 \in 0 .. MaxFollow
  /\ 0 \in Ages /\ Ttl \in Ages /\ -Back \in Ages
  /\ \A a \in Ages : (a >= 0 => a - Back \in Ages) /\ (a < Ttl => a + 1 \in Ages)
BY PanelAssumption DEF States, Ages

LEMMA Fresh ==
  /\ \A kinds : "status" \in kinds => None \in Requests(kinds)
  /\ \A kinds : \A k \in kinds : Sent(k) \in Requests(kinds)
BY Bounds DEF None, Sent, Requests

(* What nobody touches keeps its types.                                    *)
LEMMA Untouched ==
  /\ ServerOK /\ UNCHANGED server => ServerOK'
  /\ PageOK /\ UNCHANGED page => PageOK'
<1>1. ServerOK /\ UNCHANGED server => ServerOK'
      BY DEF server, snapshots, ServerOK
<1>2. PageOK /\ UNCHANGED page => PageOK'
      BY DEF page, PageOK
<1> QED BY <1>1, <1>2

(* An answer reaches its request and leaves the other alone.               *)
LEMMA AnswerArrives ==
  ASSUME RequestsOK, NEW kind \in {"status", "logs", "action"}, NEW s \in States,
         Answer(kind, s)
  PROVE  /\ RequestsOK'
         /\ kind = "action" => poll' = poll /\ post'.at = "answered"
         /\ kind # "action" => post' = post /\ poll'.at = "answered"
BY DEF RequestsOK, Requests, Answer

LEMMA Initially == Init => IInv
<1> SUFFICES ASSUME Init PROVE IInv
    OBVIOUS
<1>1. ServerOK
      BY Bounds DEF Init, ServerOK
<1>2. PageOK
      BY Bounds DEF Init, PageOK
<1>3. RequestsOK
      BY Fresh DEF Init, RequestsOK
<1>4. BuildsForOne
      BY DEF Init, BuildsForOne
<1>5. Room /\ RefreshGoesOn
      BY DEF Init, Room, RefreshGoesOn, refreshBusy, Sent, None
<1> QED BY <1>1, <1>2, <1>3, <1>4, <1>5, Bounds DEF Init, IInv, TypeOK

----------------------------------------------------------------------------
(* The controller.                                                         *)

(* Time and changes of the service.                                        *)
LEMMA WorldStep ==
  ASSUME IInv, ServiceChanges \/ Tick \/ ClockSetBack \/ BecomeQuiet
  PROVE  IInv'
<1> USE DEF IInv, TypeOK
<1>1. UNCHANGED <<full, work, built, page, poll, post>>
      BY DEF ServiceChanges, Tick, ClockSetBack, BecomeQuiet, server, snapshots
<1>2. state' \in States /\ quiet' \in BOOLEAN
  <2>1. state' = state \/ (state < MaxChanges /\ state' = state + 1)
        BY DEF ServiceChanges, Tick, ClockSetBack, BecomeQuiet
  <2>2. state' \in States
        BY <2>1, PanelAssumption DEF States
  <2>3. quiet' = quiet \/ quiet' = TRUE
        BY DEF ServiceChanges, Tick, ClockSetBack, BecomeQuiet
  <2> QED BY <2>2, <2>3
<1>3. age' \in [Workers -> Ages]
  <2>1. CASE Tick
    <3>1. \A w \in Workers : IF age[w] < Ttl THEN age[w] + 1 \in Ages ELSE Ttl \in Ages
          BY Bounds DEF ServerOK
    <3> QED BY <2>1, <3>1 DEF Tick
  <2>2. CASE ClockSetBack
    <3>1. \A w \in Workers : (IF age[w] < 0 THEN -Back ELSE age[w] - Back) \in Ages
          BY Bounds, PanelAssumption DEF ServerOK, Ages
    <3>2. age' = [w \in Workers |-> IF full[w] = Nil THEN Ttl
                    ELSE IF age[w] < 0 THEN -Back ELSE age[w] - Back]
          BY <2>2 DEF ClockSetBack
    <3> QED BY <3>1, <3>2, Bounds
  <2>3. CASE ServiceChanges \/ BecomeQuiet
        BY <2>3 DEF ServiceChanges, BecomeQuiet, server, snapshots, ServerOK
  <2> QED BY <2>1, <2>2, <2>3
<1>4. built_age' \in [Workers -> Ages]
  <2>1. CASE Tick
    <3>1. \A w \in Workers : IF built_age[w] < Ttl THEN built_age[w] + 1 \in Ages ELSE Ttl \in Ages
          BY Bounds DEF ServerOK
    <3> QED BY <2>1, <3>1 DEF Tick
  <2>2. CASE ClockSetBack
    <3>1. \A w \in Workers : (IF built_age[w] < 0 THEN -Back ELSE built_age[w] - Back) \in Ages
          BY Bounds, PanelAssumption DEF ServerOK, Ages
    <3>2. built_age' = [w \in Workers |-> IF work[w] = "none" THEN Ttl
                    ELSE IF built_age[w] < 0 THEN -Back ELSE built_age[w] - Back]
          BY <2>2 DEF ClockSetBack
    <3> QED BY <3>1, <3>2, Bounds
  <2>3. CASE ServiceChanges \/ BecomeQuiet
        BY <2>3 DEF ServiceChanges, BecomeQuiet, server, snapshots, ServerOK
  <2> QED BY <2>1, <2>2, <2>3
<1>5. ServerOK'
      BY <1>1, <1>3, <1>4 DEF ServerOK
<1>6. PageOK' /\ RequestsOK' /\ BuildsForOne'
      BY <1>1, Untouched DEF RequestsOK, BuildsForOne
<1>7. Room' /\ RefreshGoesOn'
      BY <1>1 DEF Room, RefreshGoesOn, refreshBusy, page
<1> QED BY <1>2, <1>5, <1>6, <1>7

LEMMA ServePollStep ==
  ASSUME IInv, NEW w \in Workers, ServePoll(w)
  PROVE  IInv'
<1> USE DEF IInv, TypeOK
<1>1. /\ work[w] = "none" /\ poll.at = "sent"
      /\ UNCHANGED <<state, full, age, page, quiet>>
      BY DEF ServePoll
<1>2. poll.kind \in {"status", "logs"}
      BY DEF RequestsOK, Requests
<1>3. \A v \in Workers : work[v] \in {"none", "action", "nobody"}
      BY <1>1 DEF BuildsForOne, ServerOK
<1>4. CASE full[w] # Nil /\ Answer(poll.kind, full[w]) /\ UNCHANGED <<work, built, built_age>>
  <2>1. full[w] \in States
        BY <1>4 DEF ServerOK
  <2>2. RequestsOK' /\ post' = post /\ poll'.at = "answered"
        BY <1>2, <1>4, <2>1, AnswerArrives
  <2>3. ServerOK' /\ PageOK'
        BY <1>1, <1>4, Untouched DEF ServerOK
  <2>4. BuildsForOne'
        BY <1>3, <1>4, <2>2 DEF BuildsForOne
  <2>5. Room' /\ RefreshGoesOn'
        BY <1>1, <2>2 DEF Room, RefreshGoesOn, refreshBusy, page
  <2> QED BY <1>1, <2>2, <2>3, <2>4, <2>5
<1>5. CASE Build(w, poll.kind, state) /\ poll' = [poll EXCEPT !.at = "served"] /\ post' = post
  <2>1. RequestsOK' /\ poll'.at = "served" /\ poll'.kind = poll.kind
        BY <1>5 DEF RequestsOK, Requests
  <2>2. work' = [work EXCEPT ![w] = poll.kind]
        BY <1>5 DEF Build
  <2>3. built' \in [Workers -> States] /\ built_age' \in [Workers -> Ages]
        BY <1>5, Bounds DEF Build, ServerOK
  <2>4. ServerOK' /\ PageOK'
        BY <1>1, <1>2, <2>2, <2>3, Untouched DEF ServerOK
  <2>5. BuildsForOne'
        BY <1>2, <1>3, <1>5, <2>1, <2>2 DEF BuildsForOne, ServerOK
  <2>6. Room' /\ RefreshGoesOn'
        BY <1>1, <1>5, <2>1 DEF Room, RefreshGoesOn, refreshBusy, page
  <2> QED BY <1>1, <2>1, <2>4, <2>5, <2>6
<1> QED BY <1>4, <1>5 DEF ServePoll

LEMMA ServePostStep ==
  ASSUME IInv, NEW w \in Workers, ServePost(w)
  PROVE  IInv'
<1> USE DEF IInv, TypeOK
<1>1. /\ work[w] = "none" /\ post.at = "sent" /\ post' = [post EXCEPT !.at = "served"]
      /\ UNCHANGED <<page, poll, quiet>> /\ state' \in States
      BY DEF ServePost
<1>2. /\ age' = [age EXCEPT ![w] = Ttl] /\ full' = [full EXCEPT ![w] = Nil]
      /\ work' = [work EXCEPT ![w] = "action"]
      /\ built' = [built EXCEPT ![w] = state'] /\ built_age' = [built_age EXCEPT ![w] = 0]
      BY DEF ServePost, Build
<1>3. \A v \in Workers : work[v] # "action"
      BY <1>1 DEF BuildsForOne
<1>4. RequestsOK' /\ post'.at = "served"
      BY <1>1 DEF RequestsOK, Requests
<1>5. ServerOK' /\ PageOK'
      BY <1>1, <1>2, Bounds, Untouched DEF ServerOK
<1>6. BuildsForOne'
      BY <1>1, <1>2, <1>3, <1>4 DEF BuildsForOne, ServerOK
<1>7. Room' /\ RefreshGoesOn'
      BY <1>1, <1>4 DEF Room, RefreshGoesOn, refreshBusy, page
<1> QED BY <1>1, <1>4, <1>5, <1>6, <1>7

LEMMA BuiltStep ==
  ASSUME IInv, NEW w \in Workers, Built(w)
  PROVE  IInv'
<1> USE DEF IInv, TypeOK
<1>1. /\ full' = [full EXCEPT ![w] = built[w]] /\ age' = [age EXCEPT ![w] = built_age[w]]
      /\ work' = [work EXCEPT ![w] = "none"]
      /\ built' = [built EXCEPT ![w] = 0] /\ built_age' = [built_age EXCEPT ![w] = Ttl]
      /\ UNCHANGED <<state, page, quiet>>
      BY DEF Built
<1>2. \/ work[w] \in {"status", "logs", "action"} /\ Answer(work[w], built[w])
      \/ work[w] = "nobody" /\ UNCHANGED <<poll, post>>
      BY DEF Built, ServerOK
<1>3. built[w] \in States
      BY DEF ServerOK
<1>4. /\ RequestsOK'
      /\ work[w] = "action" => poll' = poll /\ post'.at = "answered"
      /\ work[w] \in {"status", "logs"} => post' = post /\ poll'.at = "answered"
      /\ work[w] = "nobody" => UNCHANGED <<poll, post>>
  <2>1. CASE work[w] \in {"status", "logs", "action"} /\ Answer(work[w], built[w])
        BY <1>3, <2>1, AnswerArrives
  <2>2. CASE work[w] = "nobody" /\ UNCHANGED <<poll, post>>
        BY <2>2 DEF RequestsOK
  <2> QED BY <1>2, <2>1, <2>2
<1>5. ServerOK' /\ PageOK'
      BY <1>1, Bounds, Untouched DEF ServerOK
<1>6. \A v \in Workers : work'[v] \notin {"none", "nobody"} =>
        work'[v] = work[v] /\ work[v] # work[w]
      BY <1>1 DEF BuildsForOne, ServerOK
<1>7. BuildsForOne'
  <2> SUFFICES ASSUME NEW v \in Workers, work'[v] \notin {"none", "nobody"}
               PROVE  /\ work'[v] = "action" => post'.at = "served"
                      /\ work'[v] # "action" => poll'.at = "served" /\ poll'.kind = work'[v]
                      /\ \A u \in Workers : work'[u] = work'[v] => u = v
      BY DEF BuildsForOne
  <2>1. work'[v] = work[v] /\ work[v] # work[w]
        BY <1>6
  <2>2. \A u \in Workers : work'[u] = work'[v] => u = v
        BY <1>6, <2>1 DEF BuildsForOne
  <2>3. /\ work[v] = "action" => post' = post
        /\ work[v] # "action" => poll' = poll
        BY <1>2, <1>4, <2>1 DEF BuildsForOne
  <2> QED BY <2>1, <2>2, <2>3 DEF BuildsForOne
<1>8. Room'
      BY <1>1, <1>2, <1>4 DEF Room, BuildsForOne, page
<1>9. RefreshGoesOn'
      BY <1>1, <1>2, <1>4 DEF RefreshGoesOn, refreshBusy, page
<1> QED BY <1>1, <1>4, <1>5, <1>7, <1>8, <1>9

----------------------------------------------------------------------------
(* The page.                                                               *)

(* Processes go on building, for nobody when the request they build for    *)
(* does not wait any more.                                                 *)
WorkGoesOn ==
  /\ work' \in [Workers -> {"none", "status", "logs", "action", "nobody"}]
  /\ \A w \in Workers : work'[w] \in {work[w], "nobody"}
  /\ poll' = poll \/ \A w \in Workers : work'[w] \notin {"status", "logs"}
  /\ post' = post \/ \A w \in Workers : work'[w] # "action"

(* A request that waits for an answer, or for none, may be replaced.       *)
LEMMA Undisturbed ==
  ASSUME IInv, work' = work,
         poll' = poll \/ poll.at # "served", post' = post \/ post.at # "served"
  PROVE  WorkGoesOn
BY DEF IInv, TypeOK, ServerOK, BuildsForOne, WorkGoesOn

(* So may one that fails while a snapshot is built for it.                 *)
LEMMA Abandoned ==
  ASSUME IInv,
         \/ Fails(poll, poll.kind) /\ post' = post
         \/ Fails(post, "action") /\ poll' = poll
  PROVE  WorkGoesOn
<1> USE DEF IInv, TypeOK
<1>1. CASE Fails(poll, poll.kind) /\ post' = post
      BY <1>1 DEF Fails, ServerOK, BuildsForOne, WorkGoesOn
<1>2. CASE Fails(post, "action") /\ poll' = poll
      BY <1>2 DEF Fails, ServerOK, BuildsForOne, WorkGoesOn
<1> QED BY <1>1, <1>2

LEMMA PageStep ==
  ASSUME IInv, UNCHANGED <<state, snapshots>>, quiet' \in BOOLEAN, PageOK', RequestsOK',
         WorkGoesOn, Room', RefreshGoesOn'
  PROVE  IInv'
<1> USE DEF IInv, TypeOK
<1>1. ServerOK' /\ state' \in States
      BY DEF ServerOK, snapshots, WorkGoesOn
<1>2. BuildsForOne'
      BY DEF BuildsForOne, WorkGoesOn
<1> QED BY <1>1, <1>2

(* The request of a refresh, or the one that is under way.                 *)
LEMMA Refreshes ==
  ASSUME RequestsOK, PageOK, RefreshAll
  PROVE  /\ poll' \in Requests({"status", "logs"}) /\ poll'.at # "none"
         /\ poll' = poll \/ poll.at # "served"
         /\ refreshTimer' \in {refreshTimer, FALSE}
<1>1. CASE refreshBusy
      BY <1>1 DEF RefreshAll, refreshBusy, RequestsOK
<1>2. CASE ~refreshBusy
  <2>1. poll' = Sent("status") /\ refreshTimer' = FALSE /\ poll.at # "served"
        BY <1>2 DEF RefreshAll, refreshBusy
  <2> QED BY <2>1, Fresh DEF Sent
<1> QED BY <1>1, <1>2

LEMMA StatusComesStep ==
  ASSUME IInv, StatusComes
  PROVE  IInv'
<1> USE DEF IInv, TypeOK
<1>1. /\ poll.at # "none" /\ poll' = Sent("logs")
      /\ UNCHANGED <<state, snapshots, autoRefresh, hidden, refreshTimer, follow, post, logs, quiet>>
      BY DEF StatusComes, Fails
<1>2. status' \in {status, poll.tells} /\ errors' \in {errors, poll.tells}
      BY DEF StatusComes
<1>3. poll.tells \in States /\ RequestsOK'
      BY <1>1, Fresh DEF RequestsOK, Requests
<1>4. PageOK'
      BY <1>1, <1>2, <1>3 DEF PageOK
<1>5. Room' /\ RefreshGoesOn'
      BY <1>1 DEF Room, RefreshGoesOn, refreshBusy, Sent
<1>6. WorkGoesOn
  <2>1. CASE poll.at = "answered" /\ work' = work
        BY <1>1, <2>1, Undisturbed
  <2>2. CASE Fails(poll, poll.kind)
        BY <1>1, <2>2, Abandoned
  <2> QED BY <2>1, <2>2 DEF StatusComes
<1> QED BY <1>1, <1>3, <1>4, <1>5, <1>6, PageStep

LEMMA LogsComeStep ==
  ASSUME IInv, LogsCome
  PROVE  IInv'
<1> USE DEF IInv, TypeOK
<1>1. /\ poll.at # "none" /\ poll' = None
      /\ refreshTimer' = (autoRefresh /\ ~hidden)
      /\ UNCHANGED <<state, snapshots, autoRefresh, hidden, follow, post, status, quiet>>
      BY DEF LogsCome, Fails, ScheduleRefresh
<1>2. logs' \in {logs, poll.tells} /\ errors' \in {errors, poll.tells}
      BY DEF LogsCome
<1>3. poll.tells \in States /\ RequestsOK'
      BY <1>1, Fresh DEF RequestsOK, Requests
<1>4. PageOK'
      BY <1>1, <1>2, <1>3 DEF PageOK
<1>5. Room' /\ RefreshGoesOn'
      BY <1>1 DEF Room, RefreshGoesOn
<1>6. WorkGoesOn
  <2>1. CASE poll.at = "answered" /\ work' = work
        BY <1>1, <2>1, Undisturbed
  <2>2. CASE Fails(poll, poll.kind)
        BY <1>1, <2>2, Abandoned
  <2> QED BY <2>1, <2>2 DEF LogsCome
<1> QED BY <1>1, <1>3, <1>4, <1>5, <1>6, PageStep

LEMMA ActionComesStep ==
  ASSUME IInv, ActionComes
  PROVE  IInv'
<1> USE DEF IInv, TypeOK
<1>1. /\ post.at # "none" /\ post' = None
      /\ UNCHANGED <<state, snapshots, autoRefresh, hidden, poll, logs, quiet>>
      BY DEF ActionComes, Fails
<1>2. status' \in {status, post.tells} /\ errors' \in {errors, post.tells}
      BY DEF ActionComes
<1>3. \/ follow' = follow + 1 /\ refreshTimer' = refreshTimer
      \/ follow' = follow /\ refreshTimer' = (autoRefresh /\ ~hidden)
      BY DEF ActionComes, ScheduleRefresh
<1>4. post.tells \in States /\ RequestsOK'
      BY <1>1, Fresh DEF RequestsOK, Requests
<1>5. follow' \in 0 .. MaxFollow
      BY <1>1, <1>3, PanelAssumption DEF Room, PageOK
<1>6. refreshTimer' \in BOOLEAN
      BY <1>3 DEF PageOK
<1>7. PageOK'
      BY <1>1, <1>2, <1>4, <1>5, <1>6 DEF PageOK
<1>8. Room'
      BY <1>1 DEF Room, None
<1>9. RefreshGoesOn'
  <2>1. CASE follow' = follow + 1 /\ refreshTimer' = refreshTimer
    <3>1. follow' > 0
          BY <2>1, PanelAssumption DEF PageOK
    <3> QED BY <1>1, <2>1, <3>1 DEF RefreshGoesOn
  <2>2. CASE refreshTimer' = (autoRefresh /\ ~hidden)
        BY <1>1, <2>2 DEF RefreshGoesOn
  <2> QED BY <1>3, <2>1, <2>2
<1>10. WorkGoesOn
  <2>1. CASE post.at = "answered" /\ work' = work
        BY <1>1, <2>1, Undisturbed
  <2>2. CASE Fails(post, "action")
        BY <1>1, <2>2, Abandoned
  <2> QED BY <2>1, <2>2 DEF ActionComes
<1> QED BY <1>1, <1>4, <1>7, <1>8, <1>9, <1>10, PageStep

LEMMA TimersStep ==
  ASSUME IInv, Timers
  PROVE  IInv'
<1> USE DEF IInv, TypeOK
<1>1. UNCHANGED <<state, server, autoRefresh, hidden, post, status, logs, errors, quiet>>
      BY DEF Timers, TimerFires, FollowFires
<1>2. /\ poll' \in Requests({"status", "logs"}) /\ poll'.at # "none"
      /\ poll' = poll \/ poll.at # "served"
      /\ refreshTimer' \in {refreshTimer, FALSE}
  <2>1. CASE FollowFires
    <3>1. RefreshAll
          BY <2>1 DEF FollowFires
    <3> QED BY <3>1, Refreshes
  <2>2. CASE TimerFires
    <3>1. refreshTimer' = FALSE /\ poll' = IF refreshBusy THEN poll ELSE Sent("status")
          BY <2>2 DEF TimerFires
    <3>2. CASE refreshBusy
          BY <3>1, <3>2 DEF refreshBusy, RequestsOK
    <3>3. CASE ~refreshBusy
          BY <3>1, <3>3, Fresh DEF refreshBusy, Sent
    <3> QED BY <3>2, <3>3
  <2> QED BY <2>1, <2>2 DEF Timers
<1>3. follow' \in 0 .. MaxFollow /\ follow' <= follow
      BY PanelAssumption DEF Timers, TimerFires, FollowFires, PageOK
<1>4. PageOK' /\ RequestsOK'
      BY <1>1, <1>2, <1>3 DEF PageOK, RequestsOK
<1>5. Room'
      BY <1>1, <1>3, PanelAssumption DEF Room, PageOK
<1>6. RefreshGoesOn'
  <2>1. refreshTimer' => refreshTimer
        BY <1>2 DEF PageOK
  <2>2. autoRefresh' = autoRefresh /\ hidden' = hidden
        BY <1>1
  <2>3. refreshTimer' => autoRefresh' /\ ~hidden'
        BY <2>1, <2>2 DEF RefreshGoesOn
  <2>4. refreshBusy'
        BY <1>2 DEF refreshBusy
  <2> QED BY <2>3, <2>4 DEF RefreshGoesOn
<1> QED BY <1>1, <1>2, <1>4, <1>5, <1>6, Undisturbed, PageStep DEF server

LEMMA TriggerServiceStep ==
  ASSUME IInv, TriggerService
  PROVE  IInv'
<1> USE DEF IInv, TypeOK
<1>1. /\ post.at = "none" /\ follow < MaxFollow /\ refreshTimer' = FALSE
      /\ post' = Sent("action")
      /\ UNCHANGED <<state, server, autoRefresh, hidden, follow, poll, status, logs, errors, quiet>>
      BY DEF TriggerService
<1>2. PageOK' /\ RequestsOK'
      BY <1>1, Fresh DEF PageOK, RequestsOK
<1>3. Room' /\ RefreshGoesOn'
      BY <1>1 DEF Room, RefreshGoesOn, Sent
<1> QED BY <1>1, <1>2, <1>3, Undisturbed, PageStep DEF server

(* The buttons and the visibility of the page.                             *)
LEMMA UserStep ==
  ASSUME IInv, Refresh \/ SetLanguage \/ VisibilityChange \/ ToggleRefresh
  PROVE  IInv'
<1> USE DEF IInv, TypeOK
<1>1. UNCHANGED <<state, server, follow, post, status, logs, quiet>>
      BY DEF Refresh, SetLanguage, VisibilityChange, ToggleRefresh
<1>2. /\ errors' \in {errors, logs}
      /\ autoRefresh' \in BOOLEAN /\ hidden' \in BOOLEAN
      BY DEF Refresh, SetLanguage, VisibilityChange, ToggleRefresh, PageOK
<1>3. \/ RefreshAll /\ (refreshTimer' => autoRefresh' /\ ~hidden')
      \/ poll' = poll /\ refreshTimer' = (autoRefresh' /\ ~hidden')
  <2>1. CASE Refresh \/ SetLanguage
    <3>1. RefreshAll /\ UNCHANGED <<autoRefresh, hidden>>
          BY <2>1 DEF Refresh, SetLanguage
    <3>2. refreshTimer' => refreshTimer
          BY <3>1, Refreshes DEF PageOK
    <3> QED BY <3>1, <3>2 DEF RefreshGoesOn
  <2>2. CASE ToggleRefresh
        BY <2>2 DEF ToggleRefresh, ScheduleRefresh
  <2>3. CASE VisibilityChange
    <3>1. autoRefresh' = autoRefresh /\ hidden' = ~hidden
          BY <2>3 DEF VisibilityChange
    <3>2. CASE ~autoRefresh
          BY <2>3, <3>1, <3>2 DEF VisibilityChange, RefreshGoesOn, PageOK
    <3>3. CASE autoRefresh /\ hidden'
          BY <2>3, <3>1, <3>3 DEF VisibilityChange
    <3>4. CASE autoRefresh /\ ~hidden'
          BY <2>3, <3>1, <3>4 DEF VisibilityChange
    <3> QED BY <3>2, <3>3, <3>4
  <2> QED BY <2>1, <2>2, <2>3
<1>4. /\ poll' \in Requests({"status", "logs"}) /\ refreshTimer' \in BOOLEAN
      /\ poll' = poll \/ poll.at # "served"
      /\ poll'.at # "none" \/ refreshTimer' = (autoRefresh' /\ ~hidden')
  <2>1. CASE RefreshAll
        BY <2>1, Refreshes DEF PageOK
  <2>2. CASE poll' = poll /\ refreshTimer' = (autoRefresh' /\ ~hidden')
        BY <2>2, <1>2 DEF RequestsOK
  <2> QED BY <1>3, <2>1, <2>2
<1>5. PageOK' /\ RequestsOK'
      BY <1>1, <1>2, <1>4 DEF PageOK, RequestsOK
<1>6. Room'
      BY <1>1 DEF Room
<1>7. RefreshGoesOn'
      BY <1>3, <1>4 DEF RefreshGoesOn, refreshBusy
<1> QED BY <1>1, <1>4, <1>5, <1>6, <1>7, Undisturbed, PageStep DEF server

----------------------------------------------------------------------------

LEMMA Inductive == IInv /\ [Next]_vars => IInv'
<1> SUFFICES ASSUME IInv, [Next]_vars PROVE IInv'
    OBVIOUS
<1>1. CASE Answers
      BY <1>1, StatusComesStep, LogsComeStep, ActionComesStep, ServePollStep,
         ServePostStep, BuiltStep DEF Answers
<1>2. CASE User
      BY <1>2, TriggerServiceStep, UserStep DEF User
<1>3. CASE UNCHANGED vars
  <2>1. UNCHANGED <<state, server, page, poll, post, quiet>>
        BY <1>3 DEF vars
  <2>2. Room' /\ RefreshGoesOn'
        BY <2>1 DEF IInv, Room, RefreshGoesOn, refreshBusy, page
  <2>3. PageOK' /\ RequestsOK'
        BY <2>1, Untouched DEF IInv, TypeOK, RequestsOK
  <2> QED BY <2>1, <2>2, <2>3, Undisturbed, PageStep DEF IInv, TypeOK, server
<1> QED BY <1>1, <1>2, <1>3, TimersStep, WorldStep DEF Next

LEMMA Always == Spec => []IInv
BY Initially, Inductive, PTL DEF Spec

(* A process builds a snapshot for a request that waits for it, one        *)
(* process for each, or for one that has failed, and no more refreshes are *)
(* pending than there is room for (drcom.lua:553-603).                     *)
THEOREM TypeCorrect == Spec => []TypeOK
<1>1. IInv => TypeOK
      BY DEF IInv
<1> QED BY <1>1, Always, PTL

(* While the page refreshes by itself and is looked at, something is under *)
(* way that leads to the next refresh, and nothing is timed while it is    *)
(* not (form.htm:1204-1317).                                               *)
THEOREM RefreshingGoesOn == Spec => []RefreshGoesOn
<1>1. IInv => RefreshGoesOn
      BY DEF IInv
<1> QED BY <1>1, Always, PTL
=============================================================================
