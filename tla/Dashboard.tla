------------------------------ MODULE Dashboard ------------------------------
(***************************************************************************)
(* The dashboard page (ui/bench.js) in front of the service, through the   *)
(* gate of TokenGate, beside other clients.                                *)
(*                                                                         *)
(* The page is single-threaded and its functions are asynchronous: each    *)
(* call of one is a task, which runs from one await to the next. What a    *)
(* task awaits are requests, at most two at a time and answered in any     *)
(* order. Nothing cancels a task, and several run at the same time: the    *)
(* page as it opens, the forms, the clicks on a run.                       *)
(*                                                                         *)
(* The portal gives the page's requests the token of its session.  Of the  *)
(* service only what the page shows is kept: the two lists, and for each   *)
(* run how far it has come.  Layout and texts are left out.                *)
(***************************************************************************)
EXTENDS TokenGate, Integers, FiniteSets

CONSTANTS
  Tasks,        \* the tasks of a page
  Main,         \* the task that opens the page
  Seed,         \* a test, and a run, the service had before
  Session,      \* the token of the portal's session
  Asked,        \* what a request of another client asks
  Others,       \* the requests of other clients, each made once
  MaxChanges,   \* bound: the changes of each run
  MaxEvents,    \* bound: tasks, requests of others, rotations and restarts
  MaxClients    \* bound: the tasks and requests of others among them

Lists == {"list_tests", "list_runs"}
Views == {"get_scorecard", "get_report"}
Posts == {"register_test", "start_run"}
Items == Tasks \cup {Seed}    \* an item is named by the task that posted it

(* A task awaits one request at a time, or the two of loadRunDetails.      *)
PageRequests == Tasks \X {1, 2}
At(t, op) == <<t, IF op \in {"get_report"} \cup Posts THEN 2 ELSE 1>>

ASSUME DashboardAssumption ==
  /\ Main \in Tasks
  /\ None \notin Tasks
  /\ Session \in Tokens
  /\ Targets # {}
  /\ Requests = PageRequests \cup Others
  /\ PageRequests \cap Others = {}
  /\ Asked \subseteq RequestType
  /\ Lists \cup Views \cup Posts \subseteq Operations
  /\ MaxChanges \in Nat

VARIABLES
  stored,       \* the tests and the runs of the service
  progress,     \* the changes of each run
  content,      \* what the service answered to each request
  step,         \* where each task is
  list,         \* the list it loads
  about,        \* the run it shows
  since,        \* history: the progress of that run when it was clicked
  shown,        \* the lists as the page shows them
  panels,       \* the two panels of the page
  events        \* the events counted so far

service == <<stored, progress, content>>
page == <<step, list, about, since, shown, panels>>
vars == <<gateVars, service, page, events>>

Nothing == [by |-> None, run |-> Seed, progress |-> -1]    \* "not available"

Init ==
  /\ GateInit
  /\ stored = [l \in Lists |-> {Seed}]
  /\ progress = [i \in Items |-> 0]
  /\ content = [r \in Requests |-> None]
  /\ step = [t \in Tasks |-> "unused"]
  /\ list = [t \in Tasks |-> "list_tests"]
  /\ about = [t \in Tasks |-> Seed]
  /\ since = [t \in Tasks |-> 0]
  /\ shown = [l \in Lists |-> {}]
  /\ panels = [v \in Views |-> Nothing]
  /\ events = 0

-----------------------------------------------------------------------------
(* A task takes the answers it awaited and makes its next requests.        *)

Asking(op) == [op |-> op, token |-> Session, target |-> CHOOSE x \in Targets : TRUE,
               environment |-> None]

Await(t, taken, ops) ==
  LET done == {At(t, op) : op \in taken}
      sent == {At(t, op) : op \in ops}
  IN
  /\ Exchange(done, [r \in sent |-> Asking(CHOOSE op \in ops : At(t, op) = r)])
  /\ content' = [r \in Requests |-> IF r \in done THEN None ELSE content[r]]
  /\ UNCHANGED <<stored, progress>>

Answered(r) == phase[r] = "answered"
Ok(r) == Answered(r) /\ answer[r] = "served"
Rejected(r) == Answered(r) /\ ~Ok(r)

Counted ==
  /\ events < MaxEvents
  /\ events' = events + 1

Begun ==
  {t \in Tasks : step[t] # "unused"} \cup {r \in Others : phase[r] # "idle"}

Begins == Counted /\ Cardinality(Begun) < MaxClients

Goto(t, label) == step' = [step EXCEPT ![t] = label]

-----------------------------------------------------------------------------
(* The page opens: loadTests, then loadRuns.  The forms are in place       *)
(* before the first answer, the runs can be clicked once they are shown.   *)

OpenPage ==
  /\ step[Main] = "unused"
  /\ Begins
  /\ Await(Main, {}, {"list_tests"})
  /\ Goto(Main, "load")
  /\ UNCHANGED <<list, about, since, shown, panels>>

(* The form of each list posts an item for it.                             *)
PostOp(l) == IF l = "list_tests" THEN "register_test" ELSE "start_run"

Submit(t) ==
  \E l \in Lists :
    /\ step[Main] # "unused"
    /\ step[t] = "unused"
    /\ Begins
    /\ Await(t, {}, {PostOp(l)})
    /\ Goto(t, "post")
    /\ list' = [list EXCEPT ![t] = l]
    /\ UNCHANGED <<about, since, shown, panels>>

(* postJSON throws unless the answer is good; then the list is loaded.     *)
(* A seeded defect: the post is not awaited.                               *)
PostTakenUnawaited(t) == {}

PostTaken(t) == {PostOp(list[t])}

Posted(t) ==
  /\ step[t] = "post"
  /\ \A op \in PostTaken(t) : Ok(At(t, op))
  /\ Await(t, PostTaken(t), {list[t]})
  /\ Goto(t, "load")
  /\ UNCHANGED <<list, about, since, shown, panels, events>>

PostFails(t) ==
  /\ step[t] = "post"
  /\ Rejected(At(t, PostOp(list[t])))
  /\ Await(t, {PostOp(list[t])}, {})
  /\ Goto(t, "failed")
  /\ UNCHANGED <<list, about, since, shown, panels, events>>

(* loadTests and loadRuns replace the whole list.                          *)
ShowList(t) ==
  shown' = [shown EXCEPT ![list[t]] = content[At(t, list[t])]]

TestsLoadedFirst(t) ==
  /\ step[t] = "load"
  /\ t = Main /\ list[t] = "list_tests"
  /\ Ok(At(t, list[t]))
  /\ ShowList(t)
  /\ Await(t, {"list_tests"}, {"list_runs"})
  /\ list' = [list EXCEPT ![t] = "list_runs"]
  /\ UNCHANGED <<step, about, since, panels, events>>

Loaded(t) ==
  /\ step[t] = "load"
  /\ ~(t = Main /\ list[t] = "list_tests")
  /\ Ok(At(t, list[t]))
  /\ ShowList(t)
  /\ Await(t, {list[t]}, {})
  /\ Goto(t, "done")
  /\ UNCHANGED <<list, about, since, panels, events>>

LoadFails(t) ==
  /\ step[t] = "load"
  /\ Rejected(At(t, list[t]))
  /\ Await(t, {list[t]}, {})
  /\ Goto(t, "failed")
  /\ UNCHANGED <<list, about, since, shown, panels, events>>

(* loadRunDetails: both fetches go out at once, a failed one counts as     *)
(* answered, and both panels are rendered when both are there.             *)
Click(t) ==
  \E run \in shown["list_runs"] :
    /\ step[t] = "unused"
    /\ Begins
    /\ Await(t, {}, Views)
    /\ Goto(t, "details")
    /\ about' = [about EXCEPT ![t] = run]
    /\ since' = [since EXCEPT ![t] = progress[run]]
    /\ UNCHANGED <<list, shown, panels>>

(* Three seeded defects: a failed fetch is not caught; a panel whose fetch *)
(* failed is left as it is, or shows what was not answered.                *)
FetchedUncaught(t) == \A v \in Views : Ok(At(t, v))
PanelKept(t, v) ==
  IF Ok(At(t, v)) THEN [by |-> t, run |-> about[t], progress |-> content[At(t, v)]]
  ELSE panels[v]

PanelUnchecked(t, v) ==
  [by |-> t, run |-> about[t], progress |-> content[At(t, v)]]

Fetched(t) == \A v \in Views : Answered(At(t, v))

Panel(t, v) ==
  [by |-> t, run |-> about[t],
   progress |-> IF Ok(At(t, v)) THEN content[At(t, v)] ELSE -1]

Render(t) ==
  /\ step[t] = "details"
  /\ Fetched(t)
  /\ panels' = [v \in Views |-> Panel(t, v)]
  /\ Await(t, Views, {})
  /\ Goto(t, "done")
  /\ UNCHANGED <<list, about, since, shown, events>>

TaskStep(t) ==
  \/ Posted(t) \/ PostFails(t)
  \/ TestsLoadedFirst(t) \/ Loaded(t) \/ LoadFails(t)
  \/ Render(t)

-----------------------------------------------------------------------------
(* The service answers the requests it is given, and the runs go on.       *)

ServeList(t, l) ==
  /\ Serve(At(t, l))
  /\ Op(At(t, l)) = l
  /\ content' = [content EXCEPT ![At(t, l)] = stored[l]]
  /\ UNCHANGED <<stored, progress, page, events>>

ServeView(t, v) ==
  /\ Serve(At(t, v))
  /\ Op(At(t, v)) = v
  /\ content' = [content EXCEPT ![At(t, v)] = progress[about[t]]]
  /\ UNCHANGED <<stored, progress, page, events>>

ServePost(t) ==
  /\ Serve(At(t, PostOp(list[t])))
  /\ Op(At(t, PostOp(list[t]))) = PostOp(list[t])
  /\ stored' = [stored EXCEPT ![list[t]] = @ \cup {t}]
  /\ UNCHANGED <<progress, content, page, events>>

ServeOther(r) ==
  /\ Serve(r)
  /\ UNCHANGED <<service, page, events>>

Handler ==
  \/ \E t \in Tasks :
       \/ \E l \in Lists : ServeList(t, l)
       \/ \E v \in Views : ServeView(t, v)
       \/ ServePost(t)
  \/ \E r \in Others : ServeOther(r)

(* Somebody submits a result to a run, completes it, scores it.            *)
Change(run) ==
  /\ run \in stored["list_runs"]
  /\ progress[run] < MaxChanges
  /\ progress' = [progress EXCEPT ![run] = @ + 1]
  /\ UNCHANGED <<gateVars, stored, content, page, events>>

-----------------------------------------------------------------------------

GateMoves(r) == GateStep(r) /\ UNCHANGED <<service, page, events>>

AskOther(r) ==
  \E asked \in Asked :
    /\ phase[r] = "idle"
    /\ Begins
    /\ Exchange({}, [x \in {r} |-> asked])
    /\ UNCHANGED <<service, page>>

RealmRotates ==
  \E keys \in KeySets :
    /\ Counted
    /\ keys # realm
    /\ Rotate(keys)
    /\ UNCHANGED <<service, page>>

ServiceRestarts ==
  /\ Counted
  /\ Restart
  /\ UNCHANGED <<service, page>>

(* Every task and every request has come to its end.                       *)
Done ==
  /\ \A t \in Tasks : step[t] \in {"unused", "done", "failed"}
  /\ \A r \in Requests : phase[r] \in {"idle", "answered"}
  /\ UNCHANGED vars

Next ==
  \/ OpenPage
  \/ \E t \in Tasks : Submit(t) \/ Click(t) \/ TaskStep(t)
  \/ \E r \in Requests : GateMoves(r)
  \/ Handler
  \/ \E r \in Others : AskOther(r)
  \/ \E run \in Items : Change(run)
  \/ RealmRotates
  \/ ServiceRestarts
  \/ Done

Spec == Init /\ [][Next]_vars

-----------------------------------------------------------------------------
(* Type invariant.                                                         *)

TypeOK ==
  /\ GateTypeOK
  /\ stored \in [Lists -> SUBSET Items]
  /\ progress \in [Items -> 0 .. MaxChanges]
  /\ step \in [Tasks -> {"unused", "post", "load", "details", "done", "failed"}]
  /\ list \in [Tasks -> Lists]
  /\ about \in [Tasks -> Items]
  /\ since \in [Tasks -> 0 .. MaxChanges]
  /\ shown \in [Lists -> SUBSET Items]
  /\ panels \in [Views -> [by : Tasks \cup {None}, run : Items,
                           progress : -1 .. MaxChanges]]

-----------------------------------------------------------------------------
(* Properties.                                                             *)

(* The two panels belong to one click, whichever of several clicks they    *)
(* belong to and whichever of its fetches failed, and what they show of    *)
(* its run is not older than the click (bench.js, loadRunDetails).         *)
DetailsOfOneClick ==
  /\ panels["get_scorecard"].by = panels["get_report"].by
  /\ \A v \in Views : panels[v].progress # -1 =>
       /\ panels[v].run = about[panels[v].by]
       /\ since[panels[v].by] <= panels[v].progress
       /\ panels[v].progress <= progress[panels[v].run]

(* A form ends with the item it posted in the list it shows, although      *)
(* other loads of that list are in flight; it is a later answer to an      *)
(* older load that may take it off again (bench.js, the submit handlers).  *)
FormShowsItsItem ==
  [][\A t \in Tasks \ {Main} :
       step[t] = "load" /\ step'[t] = "done" =>
         /\ t \in stored[list[t]]
         /\ t \in shown'[list[t]]]_vars

(* A task whose requests have all been answered goes on, whatever the gate *)
(* or a restart made of them: nothing on the page waits for an answer that *)
(* has come, and a click ends by rendering its run (bench.js,              *)
(* loadRunDetails, getJSON and postJSON).                                  *)
AnsweredTasksGoOn ==
  \A t \in Tasks :
    /\ step[t] \in {"post", "load", "details"}
    /\ \A n \in {1, 2} : phase[<<t, n>>] \in {"idle", "answered"}
    => ENABLED TaskStep(t)
=============================================================================
