-------------------------- MODULE StatusOverlayProofs --------------------------
(***************************************************************************)
(* Proofs about the status line, for any set of tasks: what StatusProvider *)
(* counts, what stays shown, the shimmer, and the agreement of the program *)
(* with the overlay.                                                       *)
(*                                                                         *)
(* Only a hide nobody was going to make when a task was pushed could take  *)
(* the task off the screen, and ShownInv says there is none.  BarInv says  *)
(* what the messages on their way will make of the bar.                    *)
(***************************************************************************)
EXTENDS StatusOverlay, FiniteSetTheorems, TLAPS

CountInv == IsFiniteSet(Pushed) /\ StackCountsTasks

\* Whoever is about to hide the overlay was so when the tasks that run started.
ShownInv ==
    /\ Hiding \/ pc[Greeter] # "over" => Pushed \subseteq exposed
    /\ TaskStaysShown

\* The goroutine of Run, its program and the loop go together; a message needs
\* a program, and unless changes have crossed it brings what the bar lacks.
BarInv ==
    /\ prog <=> (main = "copy")
    /\ (loop = "unborn") <=> (main = "start")
    /\ (loop = "over") <=> (main = "done")
    /\ main \in {"start", "publish"} => \A a \in Actor : msg[a] = None
    /\ main = "publish" /\ ~crossed => barVisible = visible
    /\ prog /\ ~crossed =>
        /\ \A a \in Actor : msg[a] = "show" => visible
        /\ \A a \in Actor : msg[a] = "hide" => ~visible
        /\ barVisible = visible \/ \E a \in Actor : msg[a] \in {"show", "hide"}

IInv == TypeOK /\ CountInv /\ ShownInv /\ OneShimmer /\ BarInv

\* Every step keeps the types.
\* Show and Hide of the overlay keep the types of what they touch.
LEMMA SetVisibleTypes ==
    ASSUME TypeOK, NEW a \in Actor, NEW v \in BOOLEAN, SetVisible(a, v)
    PROVE  /\ visible' \in BOOLEAN /\ crossed' \in BOOLEAN
           /\ msg' \in [Actor -> {None, "status", "show", "hide"}]
<1>1. crossed' \in BOOLEAN
  <2>1. CASE visible = v
    BY <2>1, Zenon DEF SetVisible, TypeOK
  <2>2. CASE visible # v
    <3>1. Unsettled \in BOOLEAN
      BY Zenon DEF Unsettled
    <3> QED
      BY <2>2, <3>1, Zenon DEF SetVisible
  <2> QED
    BY <2>1, <2>2
<1>2. visible' \in BOOLEAN
  BY Zenon DEF SetVisible, TypeOK
<1>3. msg' \in [Actor -> {None, "status", "show", "hide"}]
  BY DEF SetVisible, Send, TypeOK
<1> QED
  BY <1>1, <1>2, <1>3

LEMMA TypeStep ==
    ASSUME IInv, Next
    PROVE  TypeOK'
<1>1. TypeOK /\ CountInv /\ ShownInv /\ OneShimmer /\ BarInv
  BY DEF IInv
<1> USE <1>1, OverlayAssumption DEF Actor, TaskLabel, GreeterLabel
<1>2. ASSUME NEW t \in Task, PushTask(t) PROVE TypeOK'
  BY <1>2 DEF PushTask, At, Goto, provider, program, bar, history, TypeOK
<1>3. ASSUME NEW t \in Task, Show(t) PROVE TypeOK'
  <2>1. visible' \in BOOLEAN /\ crossed' \in BOOLEAN
        /\ msg' \in [Actor -> {None, "status", "show", "hide"}]
    BY <1>3, SetVisibleTypes DEF Show
  <2>2. pc' = [pc EXCEPT ![t] = "report"] /\ UNCHANGED <<provider, bar, program, exposed>>
    BY <1>3 DEF Show, Goto
  <2> QED
    BY <2>1, <2>2 DEF provider, program, bar, TypeOK
<1>4. ASSUME NEW t \in Task, Report(t) PROVE TypeOK'
  BY <1>4 DEF Report, At, Goto, SetStatus, Send, provider, program, bar, history, TypeOK
<1>5. ASSUME NEW t \in Task, ReportStatus(t) PROVE TypeOK'
  BY <1>5 DEF ReportStatus, At, Goto, provider, program, bar, history, TypeOK
<1>6. ASSUME NEW t \in Task, PopTask(t) PROVE TypeOK'
  <2>1. tasks' \in Nat /\ exposed' \subseteq Task
    BY <1>6 DEF PopTask, TypeOK
  <2>2. timer' \in BOOLEAN
    BY <1>6 DEF PopTask, TypeOK
  <2>3. pc' = [pc EXCEPT ![t] = "reportLast"] \/ pc' = [pc EXCEPT ![t] = "hide"]
    BY <1>6 DEF PopTask, Goto
  <2> QED
    BY <1>6, <2>1, <2>2, <2>3 DEF PopTask, program, bar, TypeOK
<1>7. ASSUME NEW t \in Task, ReportLast(t) PROVE TypeOK'
  BY <1>7 DEF ReportLast, At, Goto, SetStatus, Send, provider, program, bar, history, TypeOK
<1>8. ASSUME NEW a \in Actor, Hide(a) PROVE TypeOK'
  <2>1. visible' \in BOOLEAN /\ crossed' \in BOOLEAN
        /\ msg' \in [Actor -> {None, "status", "show", "hide"}]
    BY <1>8, SetVisibleTypes DEF Hide
  <2>2. /\ pc' = [pc EXCEPT ![a] = IF a = Greeter THEN "over" ELSE "idle"]
        /\ UNCHANGED <<provider, bar, program, exposed>>
    BY <1>8 DEF Hide, Goto
  <2> QED
    BY <2>1, <2>2 DEF provider, program, bar, TypeOK
<1>9. ASSUME NEW a \in Actor, Update(a) PROVE TypeOK'
  <2>1. ticks' \in Nat
    BY <1>9 DEF Update, TypeOK
  <2>2. barVisible' \in BOOLEAN /\ ticking' \in BOOLEAN
    BY <1>9 DEF Update, StartsShimmer, TypeOK
  <2> QED
    BY <1>9, <2>1, <2>2 DEF Update, provider, program, history, TypeOK
<1>10. ASSUME NEW a \in Actor, SendLost(a) PROVE TypeOK'
  BY <1>10 DEF SendLost, provider, program, bar, history, TypeOK
<1>11. ASSUME Greet PROVE TypeOK'
  BY <1>11 DEF Greet, Goto, GreetNext, SetStatus, Send, provider, program, bar, history, TypeOK
<1>12. ASSUME StartProgram PROVE TypeOK'
  BY <1>12 DEF StartProgram, provider, program, bar, history, TypeOK
<1>13. ASSUME PublishProgram PROVE TypeOK'
  BY <1>13 DEF PublishProgram, provider, program, bar, history, TypeOK
<1>14. ASSUME Stop PROVE TypeOK'
  BY <1>14 DEF Stop, provider, program, bar, history, TypeOK
<1>15. ASSUME Quit PROVE TypeOK'
  BY <1>15 DEF Quit, provider, program, bar, history, TypeOK
<1>16. ASSUME ShimmerTick PROVE TypeOK'
  <2>1. ticks' \in Nat
    BY <1>16 DEF ShimmerTick, TypeOK
  <2> QED
    BY <1>16, <2>1 DEF ShimmerTick, provider, program, history, TypeOK
<1> QED
  BY <1>2, <1>3, <1>4, <1>5, <1>6, <1>7, <1>8, <1>9, <1>10,
     <1>11, <1>12, <1>13, <1>14, <1>15, <1>16
     DEF Next, TaskGoesOn, Starts

\* The stack grows with a push and shrinks with a pop, and nothing else.
LEMMA CountStep ==
    ASSUME IInv, Next
    PROVE  CountInv'
<1>1. TypeOK /\ CountInv /\ ShownInv /\ OneShimmer /\ BarInv
  BY DEF IInv
<1> USE <1>1, OverlayAssumption DEF Actor, TaskLabel, GreeterLabel
<1>2. ASSUME NEW t \in Task, PushTask(t) PROVE CountInv'
  <2>1. Pushed' = Pushed \cup {t} /\ t \notin Pushed
    BY <1>2 DEF PushTask, At, Goto, TypeOK, Pushed
  <2>2. /\ IsFiniteSet(Pushed')
        /\ Cardinality(Pushed') = Cardinality(Pushed) + 1
    BY <2>1, FS_AddElement DEF CountInv
  <2> QED
    BY <1>2, <2>1, <2>2 DEF PushTask, CountInv, StackCountsTasks
<1>3. ASSUME NEW t \in Task, Show(t) PROVE CountInv'
  BY <1>3 DEF Show, At, Goto, SetVisible, Send, Unsettled, provider, program, bar, history, TypeOK, CountInv, StackCountsTasks, Pushed
<1>4. ASSUME NEW t \in Task, Report(t) PROVE CountInv'
  BY <1>4 DEF Report, At, Goto, SetStatus, Send, provider, program, bar, history, TypeOK, CountInv, StackCountsTasks, Pushed
<1>5. ASSUME NEW t \in Task, ReportStatus(t) PROVE CountInv'
  BY <1>5 DEF ReportStatus, At, Goto, provider, program, bar, history, TypeOK, CountInv, StackCountsTasks, Pushed
<1>6. ASSUME NEW t \in Task, PopTask(t) PROVE CountInv'
  <2>1. Pushed' = Pushed \ {t} /\ t \in Pushed
    BY <1>6 DEF PopTask, At, Goto, TypeOK, Pushed
  <2>2. /\ IsFiniteSet(Pushed')
        /\ Cardinality(Pushed') = Cardinality(Pushed) - 1
        /\ Cardinality(Pushed') \in Nat
        /\ Cardinality(Pushed') = 0 <=> Pushed' = {}
    BY <2>1, FS_RemoveElement, FS_CardinalityType, FS_EmptySet DEF CountInv
  <2>3. tasks' = Cardinality(Pushed')
    BY <1>6, <2>2 DEF PopTask, CountInv, StackCountsTasks, TypeOK
  <2>4. timer' <=> Pushed' # {}
    <3>1. CASE tasks' > 0
      BY <1>6, <2>1, <2>2, <2>3, <3>1 DEF PopTask, CountInv, StackCountsTasks
    <3>2. CASE tasks' = 0
      <4>1. Pushed' = {}
        BY <2>2, <2>3, <3>2
      <4>2. ~timer'
        BY <1>6, <3>2 DEF PopTask
      <4> QED
        BY <4>1, <4>2
    <3>3. tasks' > 0 \/ tasks' = 0
      BY TypeStep DEF TypeOK
    <3> QED
      BY <3>1, <3>2, <3>3
  <2> QED
    BY <2>2, <2>3, <2>4 DEF CountInv, StackCountsTasks
<1>7. ASSUME NEW t \in Task, ReportLast(t) PROVE CountInv'
  BY <1>7 DEF ReportLast, At, Goto, SetStatus, Send, provider, program, bar, history, TypeOK, CountInv, StackCountsTasks, Pushed
<1>8. ASSUME NEW a \in Actor, Hide(a) PROVE CountInv'
  BY <1>8 DEF Hide, At, Goto, SetVisible, Send, Unsettled, provider, program, bar, history, TypeOK, CountInv, StackCountsTasks, Pushed
<1>9. ASSUME NEW a \in Actor, Update(a) PROVE CountInv'
  BY <1>9 DEF Update, StartsShimmer, provider, program, bar, history, TypeOK, CountInv, StackCountsTasks, Pushed
<1>10. ASSUME NEW a \in Actor, SendLost(a) PROVE CountInv'
  BY <1>10 DEF SendLost, provider, program, bar, history, TypeOK, CountInv, StackCountsTasks, Pushed
<1>11. ASSUME Greet PROVE CountInv'
  BY <1>11 DEF Greet, Goto, GreetNext, SetStatus, Send, provider, program, bar, history, TypeOK, CountInv, StackCountsTasks, Pushed
<1>12. ASSUME StartProgram PROVE CountInv'
  BY <1>12 DEF StartProgram, provider, program, bar, history, TypeOK, CountInv, StackCountsTasks, Pushed
<1>13. ASSUME PublishProgram PROVE CountInv'
  BY <1>13 DEF PublishProgram, provider, program, bar, history, TypeOK, CountInv, StackCountsTasks, Pushed
<1>14. ASSUME Stop PROVE CountInv'
  BY <1>14 DEF Stop, provider, program, bar, history, TypeOK, CountInv, StackCountsTasks, Pushed
<1>15. ASSUME Quit PROVE CountInv'
  BY <1>15 DEF Quit, provider, program, bar, history, TypeOK, CountInv, StackCountsTasks, Pushed
<1>16. ASSUME ShimmerTick PROVE CountInv'
  BY <1>16 DEF ShimmerTick, provider, program, bar, history, TypeOK, CountInv, StackCountsTasks, Pushed
<1> QED
  BY <1>2, <1>3, <1>4, <1>5, <1>6, <1>7, <1>8, <1>9, <1>10,
     <1>11, <1>12, <1>13, <1>14, <1>15, <1>16
     DEF Next, TaskGoesOn, Starts

\* Nothing hides the overlay from the tasks that are not exposed.
LEMMA ShownStep ==
    ASSUME IInv, Next
    PROVE  ShownInv'
<1>1. TypeOK /\ CountInv /\ ShownInv /\ OneShimmer /\ BarInv
  BY DEF IInv
<1> USE <1>1, OverlayAssumption DEF Actor, TaskLabel, GreeterLabel
<1>2. ASSUME NEW t \in Task, PushTask(t) PROVE ShownInv'
  BY <1>2 DEF PushTask, At, Goto, provider, program, bar, history, TypeOK, CountInv, StackCountsTasks, ShownInv, TaskStaysShown, Hiding, Pushed
<1>3. ASSUME NEW t \in Task, Show(t) PROVE ShownInv'
  BY <1>3 DEF Show, At, Goto, SetVisible, Send, Unsettled, provider, program, bar, history, TypeOK, CountInv, StackCountsTasks, ShownInv, TaskStaysShown, Hiding, Pushed
<1>4. ASSUME NEW t \in Task, Report(t) PROVE ShownInv'
  BY <1>4 DEF Report, At, Goto, SetStatus, Send, provider, program, bar, history, TypeOK, CountInv, StackCountsTasks, ShownInv, TaskStaysShown, Hiding, Pushed
<1>5. ASSUME NEW t \in Task, ReportStatus(t) PROVE ShownInv'
  BY <1>5 DEF ReportStatus, At, Goto, provider, program, bar, history, TypeOK, CountInv, StackCountsTasks, ShownInv, TaskStaysShown, Hiding, Pushed
<1>6. ASSUME NEW t \in Task, PopTask(t) PROVE ShownInv'
  <2>1. Pushed' = Pushed \ {t} /\ t \in Pushed
    BY <1>6 DEF PopTask, At, Goto, TypeOK, Pushed
  <2>2. exposed' = exposed \ {t} /\ visible' = visible /\ pc'[Greeter] = pc[Greeter]
    BY <1>6 DEF PopTask, At, Goto, TypeOK, history
  <2>3. TaskStaysShown'
    <3>1. \A u \in Pushed' : pc'[u] = pc[u] /\ u \in Pushed \ {t}
      BY <1>6, <2>1 DEF PopTask, Goto, TypeOK, Pushed
    <3> QED
      BY <2>2, <3>1 DEF ShownInv, TaskStaysShown
  <2>4. CASE Pushed' = {}
    BY <2>3, <2>4 DEF ShownInv
  <2>5. CASE Pushed' # {}
    <3>1. tasks' > 0
      <4>1. CountInv'
        BY CountStep
      <4> QED
        BY <2>5, <4>1, FS_EmptySet, FS_CardinalityType DEF CountInv, StackCountsTasks
    <3>2. Hiding' => Hiding
      BY <1>6, <3>1 DEF PopTask, Goto, Hiding, TypeOK
    <3> QED
      BY <2>1, <2>2, <2>3, <3>2 DEF ShownInv
  <2> QED
    BY <2>4, <2>5
<1>7. ASSUME NEW t \in Task, ReportLast(t) PROVE ShownInv'
  BY <1>7 DEF ReportLast, At, Goto, SetStatus, Send, provider, program, bar, history, TypeOK, CountInv, StackCountsTasks, ShownInv, TaskStaysShown, Hiding, Pushed
<1>8. ASSUME NEW a \in Actor, Hide(a) PROVE ShownInv'
  BY <1>8 DEF Hide, At, Goto, SetVisible, Send, Unsettled, provider, program, bar, history, TypeOK, CountInv, StackCountsTasks, ShownInv, TaskStaysShown, Hiding, Pushed
<1>9. ASSUME NEW a \in Actor, Update(a) PROVE ShownInv'
  BY <1>9 DEF Update, StartsShimmer, provider, program, bar, history, TypeOK, CountInv, StackCountsTasks, ShownInv, TaskStaysShown, Hiding, Pushed
<1>10. ASSUME NEW a \in Actor, SendLost(a) PROVE ShownInv'
  BY <1>10 DEF SendLost, provider, program, bar, history, TypeOK, CountInv, StackCountsTasks, ShownInv, TaskStaysShown, Hiding, Pushed
<1>11. ASSUME Greet PROVE ShownInv'
  BY <1>11 DEF Greet, Goto, GreetNext, SetStatus, Send, provider, program, bar, history, TypeOK, CountInv, StackCountsTasks, ShownInv, TaskStaysShown, Hiding, Pushed
<1>12. ASSUME StartProgram PROVE ShownInv'
  BY <1>12 DEF StartProgram, provider, program, bar, history, TypeOK, CountInv, StackCountsTasks, ShownInv, TaskStaysShown, Hiding, Pushed
<1>13. ASSUME PublishProgram PROVE ShownInv'
  BY <1>13 DEF PublishProgram, provider, program, bar, history, TypeOK, CountInv, StackCountsTasks, ShownInv, TaskStaysShown, Hiding, Pushed
<1>14. ASSUME Stop PROVE ShownInv'
  BY <1>14 DEF Stop, provider, program, bar, history, TypeOK, CountInv, StackCountsTasks, ShownInv, TaskStaysShown, Hiding, Pushed
<1>15. ASSUME Quit PROVE ShownInv'
  BY <1>15 DEF Quit, provider, program, bar, history, TypeOK, CountInv, StackCountsTasks, ShownInv, TaskStaysShown, Hiding, Pushed
<1>16. ASSUME ShimmerTick PROVE ShownInv'
  BY <1>16 DEF ShimmerTick, provider, program, bar, history, TypeOK, CountInv, StackCountsTasks, ShownInv, TaskStaysShown, Hiding, Pushed
<1> QED
  BY <1>2, <1>3, <1>4, <1>5, <1>6, <1>7, <1>8, <1>9, <1>10,
     <1>11, <1>12, <1>13, <1>14, <1>15, <1>16
     DEF Next, TaskGoesOn, Starts

\* The chain of ticks starts when there is none and ends with its last tick.
LEMMA ShimmerStep ==
    ASSUME IInv, Next
    PROVE  OneShimmer'
<1>1. TypeOK /\ CountInv /\ ShownInv /\ OneShimmer /\ BarInv
  BY DEF IInv
<1> USE <1>1, OverlayAssumption DEF Actor, TaskLabel, GreeterLabel
<1>2. ASSUME NEW t \in Task, PushTask(t) PROVE OneShimmer'
  BY <1>2 DEF PushTask, At, Goto, provider, program, bar, history, TypeOK, OneShimmer, BarInv
<1>3. ASSUME NEW t \in Task, Show(t) PROVE OneShimmer'
  BY <1>3 DEF Show, At, Goto, SetVisible, Send, Unsettled, provider, program, bar, history, TypeOK, OneShimmer, BarInv
<1>4. ASSUME NEW t \in Task, Report(t) PROVE OneShimmer'
  BY <1>4 DEF Report, At, Goto, SetStatus, Send, provider, program, bar, history, TypeOK, OneShimmer, BarInv
<1>5. ASSUME NEW t \in Task, ReportStatus(t) PROVE OneShimmer'
  BY <1>5 DEF ReportStatus, At, Goto, provider, program, bar, history, TypeOK, OneShimmer, BarInv
<1>6. ASSUME NEW t \in Task, PopTask(t) PROVE OneShimmer'
  BY <1>6 DEF PopTask, At, Goto, provider, program, bar, history, TypeOK, OneShimmer, BarInv
<1>7. ASSUME NEW t \in Task, ReportLast(t) PROVE OneShimmer'
  BY <1>7 DEF ReportLast, At, Goto, SetStatus, Send, provider, program, bar, history, TypeOK, OneShimmer, BarInv
<1>8. ASSUME NEW a \in Actor, Hide(a) PROVE OneShimmer'
  BY <1>8 DEF Hide, At, Goto, SetVisible, Send, Unsettled, provider, program, bar, history, TypeOK, OneShimmer, BarInv
<1>9. ASSUME NEW a \in Actor, Update(a) PROVE OneShimmer'
  <2>1. CASE StartsShimmer(msg[a])
    <3>1. ticks = 0 /\ ~ticking
      BY <2>1 DEF StartsShimmer, OneShimmer
    <3>2. ticks' = 1
      BY <1>9, <2>1, <3>1 DEF Update
    <3>3. ticking'
      BY <1>9, <2>1, Zenon DEF Update
    <3> QED
      BY <3>2, <3>3 DEF OneShimmer
  <2>2. CASE ~StartsShimmer(msg[a])
    <3>1. ticking' <=> ticking
      BY <1>9, <2>2 DEF Update, TypeOK
    <3>2. ticks' = ticks
      BY <1>9, <2>2 DEF Update
    <3>3. barVisible' => ticking'
      BY <1>9, <2>2, <3>1 DEF Update, StartsShimmer, OneShimmer
    <3> QED
      BY <3>1, <3>2, <3>3 DEF OneShimmer
  <2> QED
    BY <2>1, <2>2
<1>10. ASSUME NEW a \in Actor, SendLost(a) PROVE OneShimmer'
  BY <1>10 DEF SendLost, provider, program, bar, history, TypeOK, OneShimmer, BarInv
<1>11. ASSUME Greet PROVE OneShimmer'
  BY <1>11 DEF Greet, Goto, GreetNext, SetStatus, Send, provider, program, bar, history, TypeOK, OneShimmer, BarInv
<1>12. ASSUME StartProgram PROVE OneShimmer'
  BY <1>12 DEF StartProgram, provider, program, bar, history, TypeOK, OneShimmer, BarInv
<1>13. ASSUME PublishProgram PROVE OneShimmer'
  BY <1>13 DEF PublishProgram, provider, program, bar, history, TypeOK, OneShimmer, BarInv
<1>14. ASSUME Stop PROVE OneShimmer'
  BY <1>14 DEF Stop, provider, program, bar, history, TypeOK, OneShimmer, BarInv
<1>15. ASSUME Quit PROVE OneShimmer'
  BY <1>15 DEF Quit, provider, program, bar, history, TypeOK, OneShimmer, BarInv
<1>16. ASSUME ShimmerTick PROVE OneShimmer'
  BY <1>16 DEF ShimmerTick, provider, program, bar, history, TypeOK, OneShimmer, BarInv
<1> QED
  BY <1>2, <1>3, <1>4, <1>5, <1>6, <1>7, <1>8, <1>9, <1>10,
     <1>11, <1>12, <1>13, <1>14, <1>15, <1>16
     DEF Next, TaskGoesOn, Starts

\* The messages on their way make up for what the bar lacks.
LEMMA BarStep ==
    ASSUME IInv, Next
    PROVE  BarInv'
<1>1. TypeOK /\ CountInv /\ ShownInv /\ OneShimmer /\ BarInv
  BY DEF IInv
<1> USE <1>1, OverlayAssumption DEF Actor, TaskLabel, GreeterLabel
<1>2. ASSUME NEW t \in Task, PushTask(t) PROVE BarInv'
  BY <1>2 DEF PushTask, At, Goto, provider, program, bar, history, TypeOK, BarInv, OneShimmer
<1>3. ASSUME NEW t \in Task, Show(t) PROVE BarInv'
  <2>1. /\ main' = main /\ prog' = prog /\ loop' = loop
        /\ barVisible' = barVisible
    BY <1>3 DEF Show, program, bar
  <2>2. CASE visible = TRUE
    BY <1>3, <2>1, <2>2 DEF Show, SetVisible, BarInv
  <2>3. CASE visible # TRUE
    <3>1. /\ visible' = TRUE /\ crossed' = Unsettled
          /\ msg' = [msg EXCEPT ![t] = IF prog THEN "show" ELSE None]
      BY <1>3, <2>3 DEF Show, SetVisible, Send
    <3>2. CASE ~prog
      BY <2>1, <3>1, <3>2 DEF BarInv, Unsettled, TypeOK
    <3>3. CASE prog
      <4>1. msg'[t] = "show" /\ \A b \in Actor \ {t} : msg'[b] = msg[b]
        BY <3>1, <3>3 DEF TypeOK
      <4>2. ~crossed' => \A b \in Actor : msg'[b] # "hide"
        BY <3>1, <4>1 DEF Unsettled
      <4> QED
        BY <2>1, <3>1, <3>3, <4>1, <4>2 DEF BarInv
    <3> QED
      BY <3>2, <3>3
  <2> QED
    BY <2>2, <2>3
<1>4. ASSUME NEW t \in Task, Report(t) PROVE BarInv'
  BY <1>4 DEF Report, At, Goto, SetStatus, Send, provider, program, bar, history, TypeOK, BarInv, OneShimmer
<1>5. ASSUME NEW t \in Task, ReportStatus(t) PROVE BarInv'
  BY <1>5 DEF ReportStatus, At, Goto, provider, program, bar, history, TypeOK, BarInv, OneShimmer
<1>6. ASSUME NEW t \in Task, PopTask(t) PROVE BarInv'
  BY <1>6 DEF PopTask, At, Goto, provider, program, bar, history, TypeOK, BarInv, OneShimmer
<1>7. ASSUME NEW t \in Task, ReportLast(t) PROVE BarInv'
  BY <1>7 DEF ReportLast, At, Goto, SetStatus, Send, provider, program, bar, history, TypeOK, BarInv, OneShimmer
<1>8. ASSUME NEW a \in Actor, Hide(a) PROVE BarInv'
  <2>1. /\ main' = main /\ prog' = prog /\ loop' = loop
        /\ barVisible' = barVisible
    BY <1>8 DEF Hide, program, bar
  <2>2. CASE visible = FALSE
    BY <1>8, <2>1, <2>2 DEF Hide, SetVisible, BarInv
  <2>3. CASE visible # FALSE
    <3>1. /\ visible' = FALSE /\ crossed' = Unsettled
          /\ msg' = [msg EXCEPT ![a] = IF prog THEN "hide" ELSE None]
      BY <1>8, <2>3 DEF Hide, SetVisible, Send
    <3>2. CASE ~prog
      BY <2>1, <3>1, <3>2 DEF BarInv, Unsettled, TypeOK
    <3>3. CASE prog
      <4>1. msg'[a] = "hide" /\ \A b \in Actor \ {a} : msg'[b] = msg[b]
        BY <3>1, <3>3 DEF TypeOK
      <4>2. ~crossed' => \A b \in Actor : msg'[b] # "show"
        BY <3>1, <4>1 DEF Unsettled
      <4> QED
        BY <2>1, <3>1, <3>3, <4>1, <4>2 DEF BarInv
    <3> QED
      BY <3>2, <3>3
  <2> QED
    BY <2>2, <2>3
<1>9. ASSUME NEW a \in Actor, Update(a) PROVE BarInv'
  BY <1>9 DEF Update, StartsShimmer, provider, program, bar, history, TypeOK, BarInv, OneShimmer
<1>10. ASSUME NEW a \in Actor, SendLost(a) PROVE BarInv'
  BY <1>10 DEF SendLost, provider, program, bar, history, TypeOK, BarInv, OneShimmer
<1>11. ASSUME Greet PROVE BarInv'
  BY <1>11 DEF Greet, Goto, GreetNext, SetStatus, Send, provider, program, bar, history, TypeOK, BarInv, OneShimmer
<1>12. ASSUME StartProgram PROVE BarInv'
  BY <1>12 DEF StartProgram, provider, program, bar, history, TypeOK, BarInv, OneShimmer
<1>13. ASSUME PublishProgram PROVE BarInv'
  BY <1>13 DEF PublishProgram, provider, program, bar, history, TypeOK, BarInv, OneShimmer
<1>14. ASSUME Stop PROVE BarInv'
  BY <1>14 DEF Stop, provider, program, bar, history, TypeOK, BarInv, OneShimmer
<1>15. ASSUME Quit PROVE BarInv'
  BY <1>15 DEF Quit, provider, program, bar, history, TypeOK, BarInv, OneShimmer
<1>16. ASSUME ShimmerTick PROVE BarInv'
  BY <1>16 DEF ShimmerTick, provider, program, bar, history, TypeOK, BarInv, OneShimmer
<1> QED
  BY <1>2, <1>3, <1>4, <1>5, <1>6, <1>7, <1>8, <1>9, <1>10,
     <1>11, <1>12, <1>13, <1>14, <1>15, <1>16
     DEF Next, TaskGoesOn, Starts

\* The inductive invariant holds in every state: what the stack counts, who may
\* still hide what, the chain of ticks, and what messages will make of the bar.
THEOREM Invariance == Spec => []IInv
<1>1. Init => IInv
  <2> SUFFICES ASSUME Init PROVE IInv
    OBVIOUS
  <2>1. Pushed = {}
    BY OverlayAssumption DEF Init, Pushed, Actor
  <2>2. CountInv
    BY <2>1, FS_EmptySet DEF Init, CountInv, StackCountsTasks
  <2>3. ShownInv
    BY <2>1 DEF ShownInv, TaskStaysShown
  <2>4. TypeOK /\ OneShimmer /\ BarInv
    BY OverlayAssumption
       DEF Init, TypeOK, OneShimmer, BarInv, Actor, TaskLabel, GreeterLabel
  <2> QED
    BY <2>2, <2>3, <2>4 DEF IInv
<1>2. IInv /\ [Next]_vars => IInv'
  <2>1. ASSUME IInv, Next PROVE IInv'
    BY <2>1, TypeStep, CountStep, ShownStep, ShimmerStep, BarStep DEF IInv
  <2>2. ASSUME IInv, UNCHANGED vars PROVE IInv'
    BY <2>2 DEF IInv, vars, TypeOK, CountInv, StackCountsTasks, ShownInv, TaskStaysShown,
       Hiding, Pushed, OneShimmer, BarInv, Unsettled
  <2> QED
    BY <2>1, <2>2
<1> QED
  BY <1>1, <1>2, PTL DEF Spec

\* The variables keep their types.
THEOREM TypeCorrect == Spec => []TypeOK
<1>1. IInv => TypeOK
  BY DEF IInv
<1> QED
  BY <1>1, Invariance, PTL

\* The stack counts the tasks that run, whatever order they end in.
THEOREM TasksCounted == Spec => []StackCountsTasks
<1>1. IInv => StackCountsTasks
  BY DEF IInv, CountInv
<1> QED
  BY <1>1, Invariance, PTL

\* A task that starts with no hide pending stays on the screen.
THEOREM TasksShown == Spec => []TaskStaysShown
<1>1. IInv => TaskStaysShown
  BY DEF IInv, ShownInv
<1> QED
  BY <1>1, Invariance, PTL

\* There is one chain of ticks, and a visible bar has it.
THEOREM ShimmerRunsOnce == Spec => []OneShimmer
<1>1. IInv => OneShimmer
  BY DEF IInv
<1> QED
  BY <1>1, Invariance, PTL

\* The program follows the overlay unless changes have crossed.
THEOREM BarFollows == Spec => []BarAgrees
<1>1. IInv => BarAgrees
  BY DEF IInv, BarInv, BarAgrees, Unsettled
<1> QED
  BY <1>1, Invariance, PTL
=============================================================================
