--------------------------------- MODULE Panel ---------------------------------
(***************************************************************************)
(* The page of the LuCI application and what it asks the router: the       *)
(* script of drcom/form.htm, which polls the status and then the logs,     *)
(* every ten seconds while somebody looks, and posts actions in between;   *)
(* and the controller drcom.lua, whose processes each keep the last        *)
(* snapshot of the service they built and give it again for Ttl seconds.   *)
(*                                                                         *)
(* The state of the service is a number that grows with every change a     *)
(* snapshot can show.  Requests are answered or fail; which process serves *)
(* one is the web server's choice.                                         *)
(***************************************************************************)
EXTENDS Integers

CONSTANTS
  Workers,    \* the processes that serve requests
  Ttl,        \* SNAPSHOT_CACHE_TTL
  Back,       \* the seconds by which the clock may be set back
  MaxChanges, \* bound for TLC: changes of the service
  MaxFollow   \* bound for TLC: refreshes pending after actions

ASSUME PanelAssumption ==
  Ttl \in Nat \ {0} /\ Back \in Nat /\ MaxChanges \in Nat /\ MaxFollow \in Nat \ {0}

States == 0 .. MaxChanges
Ages   == -Back .. Ttl
Nil    == -1

VARIABLES
  state,        \* of the service
  full,         \* snapshot_cache.full of each process: the state it tells, or Nil
  age,          \* now - snapshot_cache.created_at, up to Ttl
  work,         \* what each process is building a snapshot for
  built,        \* the state that snapshot tells
  built_age,    \* the time since its creation
  autoRefresh, hidden,
  refreshTimer, \* a timeout is pending
  follow,       \* timeouts pending after actions
  poll,         \* the requests of refreshAll; at "none": not refreshBusy
  post,         \* the request of triggerService
  status,       \* what the page shows: lastStatusData,
  logs,         \* lastLogsData
  errors,       \* and the state its list of errors comes from
  quiet         \* from here on nothing changes, fails or is touched

snapshots == <<full, age, built, built_age>>
server == <<snapshots, work>>
page   == <<autoRefresh, hidden, refreshTimer, follow, status, logs, errors>>
vars   == <<state, server, page, poll, post, quiet>>

None == [at |-> "none", kind |-> "status", tells |-> 0]

Sent(kind) == [at |-> "sent", kind |-> kind, tells |-> 0]

refreshBusy == poll.at # "none"

(* The page has been rendered and its script run to the end.               *)
Init ==
  /\ state = 0
  /\ full = [w \in Workers |-> Nil] /\ age = [w \in Workers |-> Ttl]
  /\ work = [w \in Workers |-> "none"]
  /\ built = [w \in Workers |-> 0] /\ built_age = [w \in Workers |-> Ttl]
  /\ autoRefresh = TRUE /\ hidden \in BOOLEAN
  /\ refreshTimer = FALSE /\ follow = 0
  /\ poll = Sent("status") /\ post = None
  /\ status = 0 /\ logs = 0 /\ errors = 0
  /\ quiet = FALSE

----------------------------------------------------------------------------
(* The service and the clock.                                              *)

ServiceChanges ==
  /\ ~quiet /\ state < MaxChanges
  /\ state' = state + 1
  /\ UNCHANGED <<server, page, poll, post, quiet>>

Tick ==
  /\ age' = [w \in Workers |-> IF age[w] < Ttl THEN age[w] + 1 ELSE Ttl]
  /\ built_age' = [w \in Workers |-> IF built_age[w] < Ttl THEN built_age[w] + 1 ELSE Ttl]
  /\ UNCHANGED <<state, full, work, built, page, poll, post, quiet>>

(* An old snapshot may seem new again.                                     *)
ClockSetBack ==
  /\ ~quiet
  /\ LET Earlier(a) == IF a < 0 THEN -Back ELSE a - Back
     IN  /\ age' = [w \in Workers |-> IF full[w] = Nil THEN Ttl ELSE Earlier(age[w])]
         /\ built_age' =
              [w \in Workers |-> IF work[w] = "none" THEN Ttl ELSE Earlier(built_age[w])]
  /\ UNCHANGED <<state, full, work, built, page, poll, post, quiet>>

----------------------------------------------------------------------------
(* The controller.                                                         *)

Answer(kind, s) ==
  IF kind = "action"
  THEN post' = [post EXCEPT !.at = "answered", !.tells = s] /\ UNCHANGED poll
  ELSE poll' = [poll EXCEPT !.at = "answered", !.tells = s] /\ UNCHANGED post

(* build_snapshot begins: the time, then the state.                        *)
Build(w, kind, s) ==
  /\ work' = [work EXCEPT ![w] = kind]
  /\ built' = [built EXCEPT ![w] = s] /\ built_age' = [built_age EXCEPT ![w] = 0]

(* Mutant: a snapshot is good until the process serves an action.          *)
ServePollKept(w) ==
  /\ work[w] = "none" /\ poll.at = "sent"
  /\ IF full[w] # Nil
     THEN Answer(poll.kind, full[w]) /\ UNCHANGED <<work, built, built_age>>
     ELSE /\ Build(w, poll.kind, state)
          /\ poll' = [poll EXCEPT !.at = "served"]
          /\ UNCHANGED post
  /\ UNCHANGED <<state, full, age, page, quiet>>

(* status_json, logs_json.                                                 *)
ServePoll(w) ==
  /\ work[w] = "none" /\ poll.at = "sent"
  /\ IF full[w] # Nil /\ age[w] < Ttl
     THEN Answer(poll.kind, full[w]) /\ UNCHANGED <<work, built, built_age>>
     ELSE /\ Build(w, poll.kind, state)
          /\ poll' = [poll EXCEPT !.at = "served"]
          /\ UNCHANGED post
  /\ UNCHANGED <<state, full, age, page, quiet>>

(* service_action: the script, which may change the service, then a new    *)
(* snapshot whatever came of it.                                           *)
ServePost(w) ==
  /\ work[w] = "none" /\ post.at = "sent"
  /\ state' \in {s \in {state, state + 1} : s \in States /\ (quiet => s = state)}
  /\ age' = [age EXCEPT ![w] = Ttl] /\ full' = [full EXCEPT ![w] = Nil]
  /\ Build(w, "action", state')
  /\ post' = [post EXCEPT !.at = "served"]
  /\ UNCHANGED <<page, poll, quiet>>

(* The snapshot is complete: it is kept, and sent.                         *)
Built(w) ==
  /\ work[w] # "none"
  /\ full' = [full EXCEPT ![w] = built[w]] /\ age' = [age EXCEPT ![w] = built_age[w]]
  /\ IF work[w] = "nobody" THEN UNCHANGED <<poll, post>> ELSE Answer(work[w], built[w])
  /\ work' = [work EXCEPT ![w] = "none"]
  /\ built' = [built EXCEPT ![w] = 0] /\ built_age' = [built_age EXCEPT ![w] = Ttl]
  /\ UNCHANGED <<state, page, quiet>>

----------------------------------------------------------------------------
(* The page.                                                               *)

ScheduleRefresh(auto, hid) == refreshTimer' = (auto /\ ~hid)

(* Mutant: two refreshes may be under way.                                 *)
RefreshAllAgain == refreshTimer' = FALSE /\ poll' = Sent("status")

(* refreshAll.                                                             *)
RefreshAll ==
  IF refreshBusy THEN UNCHANGED <<refreshTimer, poll>>
  ELSE refreshTimer' = FALSE /\ poll' = Sent("status")

TimerFires ==
  /\ refreshTimer /\ refreshTimer' = FALSE
  /\ poll' = IF refreshBusy THEN poll ELSE Sent("status")
  /\ UNCHANGED <<state, server, autoRefresh, hidden, follow, post, status, logs, errors, quiet>>

FollowFires ==
  /\ follow > 0 /\ follow' = follow - 1
  /\ RefreshAll
  /\ UNCHANGED <<state, server, autoRefresh, hidden, post, status, logs, errors, quiet>>

(* A request fails at any time; a process that builds a snapshot for it    *)
(* goes on, for nobody.                                                    *)
Fails(request, kind) ==
  /\ request.at # "none" /\ ~quiet
  /\ work' = [w \in Workers |-> IF work[w] = kind THEN "nobody" ELSE work[w]]

(* renderStatus, or nothing; then the logs.                                *)
StatusComes ==
  /\ poll.kind = "status"
  /\ \/ /\ poll.at = "answered"
        /\ status' = poll.tells /\ errors' = poll.tells /\ UNCHANGED work
     \/ Fails(poll, "status") /\ UNCHANGED <<status, errors>>
  /\ poll' = Sent("logs")
  /\ UNCHANGED <<state, snapshots, autoRefresh, hidden, refreshTimer, follow, post, logs, quiet>>

(* renderLogs, or nothing; then the next refresh.                          *)
LogsCome ==
  /\ poll.kind = "logs"
  /\ \/ /\ poll.at = "answered"
        /\ logs' = poll.tells /\ errors' = poll.tells /\ UNCHANGED work
     \/ Fails(poll, "logs") /\ UNCHANGED <<logs, errors>>
  /\ poll' = None
  /\ ScheduleRefresh(autoRefresh, hidden)
  /\ UNCHANGED <<state, snapshots, autoRefresh, hidden, follow, post, status, quiet>>

(* triggerService; the buttons are disabled until it is answered.          *)
TriggerService ==
  /\ ~quiet /\ ~hidden /\ post.at = "none" /\ follow < MaxFollow
  /\ refreshTimer' = FALSE
  /\ post' = Sent("action")
  /\ UNCHANGED <<state, server, autoRefresh, hidden, follow, poll, status, logs, errors, quiet>>

(* Mutant: the answer's refresh stands for the automatic ones.             *)
ActionComesForgotten ==
  /\ \/ /\ post.at = "answered"
        /\ status' = post.tells /\ errors' = post.tells
        /\ follow' = follow + 1
        /\ UNCHANGED <<refreshTimer, work>>
     \/ /\ (post.at = "answered" /\ UNCHANGED work) \/ Fails(post, "action")
        /\ UNCHANGED <<refreshTimer, status, errors, follow>>
  /\ post' = None
  /\ UNCHANGED <<state, snapshots, autoRefresh, hidden, poll, logs, quiet>>

(* The action was done, or it was not: then the answer is not shown.       *)
ActionComes ==
  /\ \/ /\ post.at = "answered"
        /\ status' = post.tells /\ errors' = post.tells
        /\ follow' = follow + 1
        /\ UNCHANGED <<refreshTimer, work>>
     \/ /\ (post.at = "answered" /\ UNCHANGED work) \/ Fails(post, "action")
        /\ ScheduleRefresh(autoRefresh, hidden)
        /\ UNCHANGED <<status, errors, follow>>
  /\ post' = None
  /\ UNCHANGED <<state, snapshots, autoRefresh, hidden, poll, logs, quiet>>

(* The button that refreshes.                                              *)
Refresh ==
  /\ ~quiet /\ ~hidden /\ post.at = "none"
  /\ RefreshAll
  /\ UNCHANGED <<state, server, autoRefresh, hidden, follow, post, status, logs, errors, quiet>>

(* setLanguage shows the last answers again, the logs last.                *)
SetLanguage ==
  /\ ~quiet /\ ~hidden
  /\ errors' = logs
  /\ RefreshAll
  /\ UNCHANGED <<state, server, autoRefresh, hidden, follow, post, status, logs, quiet>>

(* The button that stops and resumes the automatic refresh.                *)
ToggleRefresh ==
  /\ ~quiet /\ ~hidden /\ post.at = "none"
  /\ autoRefresh' = ~autoRefresh
  /\ ScheduleRefresh(autoRefresh', hidden)
  /\ UNCHANGED <<state, server, hidden, follow, poll, post, status, logs, errors, quiet>>

VisibilityChange ==
  /\ ~quiet
  /\ hidden' = ~hidden
  /\ IF ~autoRefresh THEN UNCHANGED <<refreshTimer, poll>>
     ELSE IF hidden' THEN refreshTimer' = FALSE /\ UNCHANGED poll
     ELSE RefreshAll
  /\ UNCHANGED <<state, server, autoRefresh, follow, post, status, logs, errors, quiet>>

BecomeQuiet ==
  /\ ~quiet /\ quiet' = TRUE
  /\ UNCHANGED <<state, server, page, poll, post>>

Answers ==
  \/ StatusComes \/ LogsCome \/ ActionComes
  \/ \E w \in Workers : ServePoll(w) \/ ServePost(w) \/ Built(w)

Timers == TimerFires \/ FollowFires

User == TriggerService \/ Refresh \/ SetLanguage \/ ToggleRefresh \/ VisibilityChange

Next == Answers \/ Timers \/ User \/ ServiceChanges \/ Tick \/ ClockSetBack \/ BecomeQuiet

Spec == Init /\ [][Next]_vars

(* Requests are served and answered, timers fire, time passes.             *)
FairSpec ==
  /\ Spec
  /\ WF_vars(StatusComes) /\ WF_vars(LogsCome) /\ WF_vars(ActionComes)
  /\ WF_vars(TimerFires) /\ WF_vars(FollowFires) /\ WF_vars(Tick)
  /\ WF_vars(\E w \in Workers : ServePoll(w)) /\ WF_vars(\E w \in Workers : ServePost(w))
  /\ \A w \in Workers : WF_vars(Built(w))

----------------------------------------------------------------------------
(* Correctness.                                                            *)

Requests(kinds) ==
  [at : {"none", "sent", "served", "answered"}, kind : kinds, tells : States]

ServerOK ==
  /\ full \in [Workers -> States \cup {Nil}] /\ age \in [Workers -> Ages]
  /\ work \in [Workers -> {"none", "status", "logs", "action", "nobody"}]
  /\ built \in [Workers -> States] /\ built_age \in [Workers -> Ages]

PageOK ==
  /\ autoRefresh \in BOOLEAN /\ hidden \in BOOLEAN /\ refreshTimer \in BOOLEAN
  /\ follow \in 0 .. MaxFollow
  /\ status \in States /\ logs \in States /\ errors \in States

RequestsOK ==
  poll \in Requests({"status", "logs"}) /\ post \in Requests({"status", "action"})

BuildsForOne ==
  \A w \in Workers : work[w] \notin {"none", "nobody"} =>
    /\ work[w] = "action" => post.at = "served"
    /\ work[w] # "action" => poll.at = "served" /\ poll.kind = work[w]
    /\ \A v \in Workers : work[v] = work[w] => v = w

(* What the variables hold; a process builds a snapshot for the request    *)
(* that waits for it, one process for each, or for one that has failed.    *)
TypeOK ==
  /\ state \in States /\ quiet \in BOOLEAN
  /\ ServerOK /\ PageOK /\ RequestsOK /\ BuildsForOne

(***************************************************************************)
(* Automatic refreshing neither dies nor outlives its switch: while it is  *)
(* on and the page is looked at, a refresh, an action or a timeout is      *)
(* under way that leads to the next refresh; and none is timed while it is *)
(* off or the page hidden (form.htm:1204-1317).                            *)
(***************************************************************************)
RefreshGoesOn ==
  /\ autoRefresh /\ ~hidden =>
       refreshBusy \/ refreshTimer \/ post.at # "none" \/ follow > 0
  /\ refreshTimer => autoRefresh /\ ~hidden

(***************************************************************************)
(* A page that refreshes comes to show, and keeps showing, the state the   *)
(* service is in, its list of errors included: no snapshot a process kept, *)
(* no step back of the clock, no late or lost answer and no action posted  *)
(* while a refresh was under way keeps it from that (drcom.lua:553-603,    *)
(* form.htm:1217-1281).                                                    *)
(***************************************************************************)
PageCatchesUp ==
  <>(quiet /\ autoRefresh /\ ~hidden) =>
    <>[](status = state /\ errors = state)
=============================================================================
