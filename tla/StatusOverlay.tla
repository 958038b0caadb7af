----------------------------- MODULE StatusOverlay -----------------------------
(***************************************************************************)
(* The status line captn draws under the wrapped terminal program:         *)
(* StatusProvider (pkg/tui/status.go), the part of Overlay that says       *)
(* whether it is shown (pkg/tui/overlay.go), and the bubbletea program     *)
(* that animates it.                                                       *)
(*                                                                         *)
(* A task is the handler of one request to the local server                *)
(* (pkg/server/server.go): it pushes its status, reports progress, and     *)
(* pops when the tool has answered.  The greeter is the goroutine of       *)
(* InitWithTUI that shows a loader and hides it after a few seconds.       *)
(* Every change is made under Overlay.mu and sent to the program once it   *)
(* is unlocked.  Sends meet the program's loop on a channel with no room:  *)
(* a goroutine whose msg is not None waits in Send.                        *)
(*                                                                         *)
(* What a status says, and what reaches the terminal, is left out: of a    *)
(* status only the message that carries it is here.                        *)
(***************************************************************************)
EXTENDS Naturals, FiniteSets

CONSTANTS
    Task,
    Greeter,
    None      \* no message

ASSUME OverlayAssumption ==
    Greeter \notin Task /\ None \notin {"status", "show", "hide"}

VARIABLES
    tasks,    \* how many statuses StatusProvider.tasks holds
    timer,    \* StatusProvider.timer: whether one runs
    visible,  \* Overlay.visible
    prog,     \* whether Overlay.prog is set
    loop,     \* the program's loop: "unborn", "running" or "over"
    barVisible, ticking,  \* what the program's barModel holds
    ticks,    \* shimmer ticks on their way to the loop
    main,     \* the goroutine of Overlay.Run
    pc, msg,
    \* history
    exposed,  \* tasks pushed while somebody could still hide the overlay
    crossed   \* whether visible last changed while the program was behind

vars == <<tasks, timer, visible, prog, loop, barVisible, ticking, ticks, main,
          pc, msg, exposed, crossed>>
provider == <<tasks, timer>>
program  == <<prog, loop, main>>
bar      == <<barVisible, ticking, ticks>>
history  == <<exposed, crossed>>

Actor == Task \cup {Greeter}
TaskLabel    == {"idle", "show", "report", "busy", "reportLast", "hide"}
GreeterLabel == {"greet", "hint", "reset", "hide", "over"}

Init ==
    /\ tasks = 0 /\ timer = FALSE
    /\ visible = TRUE
    /\ barVisible = FALSE /\ ticking = FALSE /\ ticks = 0
    /\ prog = FALSE /\ loop = "unborn" /\ main = "start"
    /\ pc = [a \in Actor |-> IF a = Greeter THEN "greet" ELSE "idle"]
    /\ msg = [a \in Actor |-> None]
    /\ exposed = {} /\ crossed = FALSE

-----------------------------------------------------------------------------
(* Overlay                                                                 *)

\* Actor a is at label l, and not in a Send.
At(a, l) == pc[a] = l /\ msg[a] = None
Goto(a, l) == pc' = [pc EXCEPT ![a] = l]

Send(a, m) == msg' = [msg EXCEPT ![a] = IF prog THEN m ELSE None]

\* SetStatus and SetSubStatus, whose contents are left out.
SetStatus(a) == Send(a, "status") /\ UNCHANGED <<visible, crossed>>

\* A visible message not yet delivered, or a program that has copied the
\* overlay and cannot be told yet.
Unsettled ==
    \/ \E a \in Actor : msg[a] \in {"show", "hide"}
    \/ loop = "running" /\ ~prog

\* Mutant: the program is not told.
SetVisibleSilently(a, v) == visible' = v /\ UNCHANGED <<msg, crossed>>

\* Show and Hide: only the caller that changed it tells the program.
SetVisible(a, v) ==
    IF visible = v
    THEN UNCHANGED <<visible, msg, crossed>>
    ELSE /\ visible' = v
         /\ Send(a, IF v THEN "show" ELSE "hide")
         /\ crossed' = Unsettled

-----------------------------------------------------------------------------
(* Tasks                                                                   *)

\* Somebody is about to hide the overlay.
Hiding == \E a \in Actor : pc[a] = "hide"

PushTask(t) ==
    /\ At(t, "idle")
    /\ tasks' = tasks + 1 /\ timer' = TRUE
    /\ exposed' = IF Hiding \/ pc[Greeter] # "over" THEN exposed \cup {t} ELSE exposed
    /\ Goto(t, "show")
    /\ UNCHANGED <<visible, bar, program, msg, crossed>>

Show(t) ==
    /\ At(t, "show")
    /\ SetVisible(t, TRUE)
    /\ Goto(t, "report")
    /\ UNCHANGED <<provider, bar, program, exposed>>

\* The status of the task itself, when it starts and as it goes on.
Report(t) ==
    /\ At(t, "report")
    /\ SetStatus(t)
    /\ Goto(t, "busy")
    /\ UNCHANGED <<provider, bar, program, exposed>>

ReportStatus(t) ==
    /\ At(t, "busy")
    /\ Goto(t, "report")
    /\ UNCHANGED <<provider, visible, bar, program, msg, history>>

\* Mutant: every task that ends hides the overlay.
PopTaskHiding(t) ==
    /\ At(t, "busy")
    /\ tasks' = IF tasks > 0 THEN tasks - 1 ELSE 0
    /\ timer' = (timer /\ tasks' > 0)
    /\ Goto(t, "hide")
    /\ exposed' = exposed \ {t}
    /\ UNCHANGED <<visible, bar, program, msg, crossed>>

\* Mutant: a pop can be called again, without the Once.
PopTaskAgain(t) ==
    /\ pc[t] \in {"busy", "idle"} /\ msg[t] = None
    /\ tasks' = IF tasks > 0 THEN tasks - 1 ELSE 0
    /\ IF tasks' > 0
       THEN Goto(t, "reportLast") /\ UNCHANGED timer
       ELSE Goto(t, "hide") /\ timer' = FALSE
    /\ exposed' = exposed \ {t}
    /\ UNCHANGED <<visible, bar, program, msg, crossed>>

\* The latest status goes, be it of this task or of another.
PopTask(t) ==
    /\ At(t, "busy")
    /\ tasks' = IF tasks > 0 THEN tasks - 1 ELSE 0
    /\ IF tasks' > 0
       THEN Goto(t, "reportLast") /\ UNCHANGED timer
       ELSE Goto(t, "hide") /\ timer' = FALSE
    /\ exposed' = exposed \ {t}
    /\ UNCHANGED <<visible, bar, program, msg, crossed>>

\* The status now on top.
ReportLast(t) ==
    /\ At(t, "reportLast")
    /\ SetStatus(t)
    /\ Goto(t, "idle")
    /\ UNCHANGED <<provider, bar, program, exposed>>

\* Mutant: the greeter is taken for a task.
HideIdle(a) ==
    /\ At(a, "hide")
    /\ SetVisible(a, FALSE)
    /\ Goto(a, "idle")
    /\ UNCHANGED <<provider, bar, program, exposed>>

Hide(a) ==
    /\ At(a, "hide")
    /\ SetVisible(a, FALSE)
    /\ Goto(a, IF a = Greeter THEN "over" ELSE "idle")
    /\ UNCHANGED <<provider, bar, program, exposed>>

\* The loader, a hint in the sub status, and the hint reset.
GreetNext == [greet |-> "hint", hint |-> "reset", reset |-> "hide"]

Greet ==
    /\ pc[Greeter] \in DOMAIN GreetNext /\ msg[Greeter] = None
    /\ SetStatus(Greeter)
    /\ Goto(Greeter, GreetNext[pc[Greeter]])
    /\ UNCHANGED <<provider, bar, program, exposed>>

-----------------------------------------------------------------------------
(* The program                                                             *)

\* startProgram copies the overlay, starts the loop, and only then sets prog.
StartProgram ==
    /\ main = "start"
    /\ barVisible' = visible /\ ticking' = visible
    /\ ticks' = IF visible THEN 1 ELSE 0
    /\ loop' = "running" /\ main' = "publish"
    /\ UNCHANGED <<provider, visible, prog, pc, msg, history>>

PublishProgram ==
    /\ main = "publish"
    /\ prog' = TRUE /\ main' = "copy"
    /\ UNCHANGED <<provider, visible, loop, bar, pc, msg, history>>

\* The child has closed its terminal.
Stop ==
    /\ main = "copy"
    /\ prog' = FALSE /\ main' = "quit"
    /\ UNCHANGED <<provider, visible, loop, bar, pc, msg, history>>

\* Mutant: stop waits for the program before it tells it to quit.
QuitLate ==
    /\ main = "quit" /\ loop = "over"
    /\ main' = "done"
    /\ UNCHANGED <<provider, visible, prog, loop, bar, pc, msg, history>>

Quit ==
    /\ main = "quit" /\ loop = "running"
    /\ loop' = "over" /\ main' = "done"
    /\ UNCHANGED <<provider, visible, prog, bar, pc, msg, history>>

\* Mutant: becoming visible always starts a chain.
StartsAlways(m) == m = "show"

\* Becoming visible starts the shimmer unless it still runs.
StartsShimmer(m) == m = "show" /\ ~ticking

\* The loop takes the message of a.
Update(a) ==
    /\ loop = "running" /\ msg[a] # None
    /\ barVisible' = IF msg[a] = "status" THEN barVisible ELSE msg[a] = "show"
    /\ ticking' = (ticking \/ StartsShimmer(msg[a]))
    /\ ticks' = IF StartsShimmer(msg[a]) THEN ticks + 1 ELSE ticks
    /\ msg' = [msg EXCEPT ![a] = None]
    /\ UNCHANGED <<provider, visible, program, pc, history>>

\* Mutant: a tick is followed by another, visible or not.
ShimmerTickAlways ==
    /\ loop = "running" /\ ticks > 0
    /\ UNCHANGED vars

\* A tick that finds the bar visible sends another, which changes nothing here.
ShimmerTick ==
    /\ loop = "running" /\ ticks > 0 /\ ~barVisible
    /\ ticking' = FALSE
    /\ ticks' = ticks - 1
    /\ UNCHANGED <<provider, visible, barVisible, program, pc, msg, history>>

\* Send gives up once the program has ended.
SendLost(a) ==
    /\ loop = "over" /\ msg[a] # None
    /\ msg' = [msg EXCEPT ![a] = None]
    /\ UNCHANGED <<provider, visible, bar, program, pc, history>>

-----------------------------------------------------------------------------
TaskGoesOn(t) == Show(t) \/ Report(t) \/ ReportLast(t)
Starts == StartProgram \/ PublishProgram

Next ==
    \/ \E t \in Task : PushTask(t) \/ TaskGoesOn(t) \/ ReportStatus(t) \/ PopTask(t)
    \/ \E a \in Actor : Hide(a) \/ Update(a) \/ SendLost(a)
    \/ Greet \/ Starts \/ Stop \/ Quit \/ ShimmerTick

Spec == Init /\ [][Next]_vars

\* Goroutines run, and so does the loop, which takes senders in the order
\* they came.  No task has to start, report or end, and the child need not exit.
Fairness ==
    /\ \A t \in Task : WF_vars(TaskGoesOn(t))
    /\ \A a \in Actor : WF_vars(Hide(a)) /\ WF_vars(Update(a)) /\ WF_vars(SendLost(a))
    /\ WF_vars(Greet) /\ WF_vars(Starts) /\ WF_vars(Quit) /\ WF_vars(ShimmerTick)

FairSpec == Spec /\ Fairness

-----------------------------------------------------------------------------
(* Properties                                                              *)

\* Tasks between their push and their pop.
Pushed == {t \in Task : pc[t] \in {"show", "report", "busy"}}

\* Every variable has its type.
TypeOK ==
    /\ tasks \in Nat /\ timer \in BOOLEAN /\ visible \in BOOLEAN
    /\ barVisible \in BOOLEAN /\ ticking \in BOOLEAN /\ ticks \in Nat
    /\ prog \in BOOLEAN /\ loop \in {"unborn", "running", "over"}
    /\ main \in {"start", "publish", "copy", "quit", "done"}
    /\ pc \in [Actor -> TaskLabel \cup GreeterLabel]
    /\ pc[Greeter] \in GreeterLabel /\ \A t \in Task : pc[t] \in TaskLabel
    /\ msg \in [Actor -> {None, "status", "show", "hide"}]
    /\ exposed \subseteq Task /\ crossed \in BOOLEAN

\* A pop takes whatever is on top, and still the stack counts the tasks that
\* run: the timer stops, and the overlay is hidden, for the last of them only.
StackCountsTasks ==
    /\ tasks = Cardinality(Pushed)
    /\ timer <=> Pushed # {}

\* A task pushed when nobody was about to hide the overlay is shown until it
\* ends, however many others start and end in the meantime.
TaskStaysShown ==
    \A t \in Pushed \ exposed : pc[t] # "show" => visible

\* There is one chain of shimmer ticks, it runs whenever the bar is visible,
\* and ticking knows: showing and hiding faster than a tick neither
\* doubles it nor loses it.
OneShimmer ==
    /\ ticks = (IF ticking THEN 1 ELSE 0)
    /\ barVisible => ticking

\* The program draws the bar when, and only when, the overlay is visible, once
\* it has been told; two changes that cross on their way to it, or one between
\* the copy and the publication of startProgram, are what it takes to part them.
BarAgrees ==
    prog /\ ~crossed /\ ~Unsettled => barVisible = visible

\* Nobody is held up by the status line: a push and a pop return, also when the
\* program has ended, and Overlay.stop gets its program to end.
EveryoneReturns ==
    /\ \A t \in Task : pc[t] = "show" ~> pc[t] = "busy" /\ msg[t] = None
    /\ \A t \in Task : pc[t] \in {"reportLast", "hide"} ~> pc[t] = "idle" /\ msg[t] = None
    /\ main = "quit" ~> main = "done"

\* A hidden bar stops ticking, unless it is shown again or the program ends.
HiddenRests == ~barVisible ~> (ticks = 0 \/ barVisible \/ loop = "over")
=============================================================================
