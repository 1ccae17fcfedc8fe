--------------------------- MODULE LoopMain_proofs ---------------------------
(***************************************************************************)
(* The program of set/loop/main.cpp and the latch its Thread waits on.     *)
(*                                                                         *)
(* The latch of Count.h, for every count, any number of waiters and up to  *)
(* 65535 calls of down(): count_ is 0 exactly after the count-th one.      *)
(*                                                                         *)
(* main.cpp: it uses the Thread's latch and the Loop as their modules say, *)
(* so that what is proved of them holds in it.                             *)
(***************************************************************************)
EXTENDS LoopMain, Loop_proofs

-----------------------------------------------------------------------------
(* The latch.                                                              *)

CountTypeOK ==
  /\ count_ \in 0 .. UINT16 - 1
  /\ downs \in 0 .. MaxDowns
  /\ wp \in [Waiters -> {"idle", "check", "blocked", "passed"}]

\* What count_ holds after so many calls, the wrap included.
Counted == count_ = IF downs <= count THEN count - downs ELSE UINT16 + count - downs

LatchInv == CountTypeOK /\ Counted /\ LatchHolds /\ NoMissedRelease

\* All that is used of the width, so that the provers need not unfold it.
LEMMA Width == UINT16 \in Nat /\ UINT16 > 1
BY SMT DEF UINT16

\* The decrement of the uint16_t counter, the wrap at 0 included.
LEMMA DecWraps ==
  ASSUME NEW n \in 0 .. UINT16 - 1
  PROVE  Dec(n) = IF n = 0 THEN UINT16 - 1 ELSE n - 1
<1>1. ASSUME NEW a \in Nat, a < UINT16
      PROVE  a % UINT16 = a /\ (a + UINT16) % UINT16 = a
  BY <1>1, Width
<1>2. CASE n = 0
  <2>1. UINT16 - 1 \in Nat /\ UINT16 - 1 < UINT16 /\ n + UINT16 - 1 = UINT16 - 1
    BY <1>2, Width
  <2> QED
    BY <1>1, <1>2, <2>1 DEF Dec
<1>3. CASE n # 0
  <2>1. n - 1 \in Nat /\ n - 1 < UINT16 /\ n + UINT16 - 1 = (n - 1) + UINT16
    BY <1>3, Width
  <2> QED
    BY <1>1, <1>3, <2>1 DEF Dec
<1> QED
  BY <1>2, <1>3

\* The predicate of wait() is true exactly between the count-th down() and the
\* next one.
LEMMA OpenAtCount ==
  ASSUME CountTypeOK, Counted
  PROVE  (count_ = 0) <=> (downs = count)
BY CountAssumption, Width DEF CountTypeOK, Counted

LEMMA LatchInitially == CountInit => LatchInv
BY CountAssumption, Width DEF CountInit, LatchInv, CountTypeOK, Counted, LatchHolds,
                              NoMissedRelease

LEMMA DownPreserves ==
  ASSUME LatchInv, down
  PROVE  LatchInv'
<1> USE DEF LatchInv
<1>1. count_' = (IF count_ = 0 THEN UINT16 - 1 ELSE count_ - 1) /\ downs' = downs + 1
  BY DecWraps DEF down, CountTypeOK
<1>2. downs' \in 0 .. MaxDowns /\ downs' > downs
  BY <1>1, CountAssumption DEF down, CountTypeOK
<1>3. count_' \in 0 .. UINT16 - 1
  BY <1>1, Width DEF CountTypeOK
<1>4. Counted'
  BY <1>1, <1>2, CountAssumption, Width DEF CountTypeOK, Counted
<1>5. wp' \in [Waiters -> {"idle", "check", "blocked", "passed"}]
  BY DEF down, CountTypeOK
<1>6. CountTypeOK'
  BY <1>2, <1>3, <1>5 DEF CountTypeOK
<1>7. LatchHolds'
  <2>1. \A w \in Waiters : wp'[w] = "passed" => wp[w] = "passed"
    BY DEF down
  <2> QED
    BY <2>1, <1>2, CountAssumption DEF LatchHolds, CountTypeOK
<1>8. NoMissedRelease'
  <2>1. downs' = count => count_' = 0
    BY <1>4, CountAssumption DEF Counted
  <2>2. count_' = 0 => \A w \in Waiters : wp'[w] # "blocked"
    BY DEF down
  <2> QED
    BY <2>1, <2>2 DEF NoMissedRelease
<1> QED
  BY <1>4, <1>6, <1>7, <1>8

LEMMA WaitPreserves ==
  ASSUME LatchInv, NEW w \in Waiters, wait(w) \/ wait_check(w) \/ wait_spurious(w)
  PROVE  LatchInv'
<1> USE DEF LatchInv
<1>1. count_' = count_ /\ downs' = downs
  BY DEF wait, wait_check, wait_spurious
<1>2. CountTypeOK' /\ Counted'
  BY <1>1 DEF CountTypeOK, Counted, wait, wait_check, wait_spurious
<1>3. (count_ = 0) <=> (downs = count)
  BY OpenAtCount
<1>4. \A v \in Waiters : wp'[v] = "passed" => wp[v] = "passed" \/ count_ = 0
  BY DEF CountTypeOK, wait, wait_check, wait_spurious
<1>5. \A v \in Waiters : wp'[v] = "blocked" => wp[v] = "blocked" \/ count_ # 0
  BY DEF CountTypeOK, wait, wait_check, wait_spurious
<1>6. LatchHolds'
  BY <1>1, <1>3, <1>4, CountAssumption DEF LatchHolds
<1>7. NoMissedRelease'
  BY <1>1, <1>3, <1>5 DEF NoMissedRelease
<1> QED
  BY <1>2, <1>6, <1>7

LEMMA LatchStep == LatchInv /\ [CountNext]_countVars => LatchInv'
<1> SUFFICES ASSUME LatchInv, [CountNext]_countVars PROVE LatchInv'
  OBVIOUS
<1>1. CASE down
  BY <1>1, DownPreserves
<1>2. CASE \E w \in Waiters : wait(w) \/ wait_check(w) \/ wait_spurious(w)
  BY <1>2, WaitPreserves
<1>3. CASE UNCHANGED countVars
  BY <1>3 DEF countVars, LatchInv, CountTypeOK, Counted, LatchHolds, NoMissedRelease
<1> QED
  BY <1>1, <1>2, <1>3 DEF CountNext

LEMMA LatchInductive == CountSpec => []LatchInv
BY LatchInitially, LatchStep, PTL DEF CountSpec

\* wait() of Count.h returns to nobody before `count` calls of down().
THEOREM LatchKeepsWaiters == CountSpec => []LatchHolds
<1>1. LatchInv => LatchHolds
  BY DEF LatchInv
<1> QED
  BY <1>1, LatchInductive, PTL

\* Nobody stays blocked in wait() of Count.h when down() has been called
\* `count` times, although only the call that reaches 0 notifies.
THEOREM LatchMissesNobody == CountSpec => []NoMissedRelease
<1>1. LatchInv => NoMissedRelease
  BY DEF LatchInv
<1> QED
  BY <1>1, LatchInductive, PTL

-----------------------------------------------------------------------------
(* The program.                                                            *)

\* Every step of main.cpp's program is a step of the Loop or leaves it alone,
\* and a step of the latch or leaves that alone.
LEMMA MainSteps ==
  ASSUME MainProgram, todo \in Seq(Funcs), [Next]_vars
  PROVE  [LoopNext]_loopVars /\ [CountNext]_countVars
<1>1. Creator \in Users /\ Creator \in Waiters
  BY DEF MainProgram, OnceLatch
<1>2. CASE UNCHANGED vars
  BY <1>2 DEF vars, threadVars
<1>3. CASE state = "ok" /\ main_push
  <2>1. Head(todo) \in Funcs
    BY <1>3 DEF main_push
  <2>2. UserStep(Creator)
    BY <1>3, <2>1 DEF main_push, UserStep
  <2>3. UNCHANGED countVars
    BY <1>3 DEF main_push, threadVars
  <2> QED
    BY <1>1, <1>3, <2>2, <2>3 DEF LoopNext
<1>4. CASE state = "ok" /\ main_pushed
  BY <1>1, <1>4 DEF main_pushed, LoopNext, threadVars
<1>5. CASE main_return
  BY <1>5 DEF main_return, destroy
<1>6. CASE (construct \/ once_wait \/ constructed \/ join) /\ UNCHANGED <<loopVars, todo>>
  BY <1>1, <1>6 DEF construct, once_wait, constructed, join, CountNext
<1>7. CASE (set_thread_name \/ once_down) /\ UNCHANGED <<loopVars, todo>>
  BY <1>7 DEF set_thread_name, once_down, CountNext
<1>8. CASE state = "ok" /\ (LoopStep \/ handle_io_source) /\ UNCHANGED <<threadVars, todo>>
  BY <1>8 DEF LoopNext, threadVars
<1>9. CASE func_return /\ UNCHANGED <<loopVars, todo>>
  BY <1>9 DEF func_return
<1>10. CASE once_spurious /\ UNCHANGED <<loopVars, todo>>
  BY <1>1, <1>10 DEF once_spurious, CountNext
<1> QED
  BY <1>2, <1>3, <1>4, <1>5, <1>6, <1>7, <1>8, <1>9, <1>10 DEF Next, Main, ThreadRun

\* The two callbacks of main.cpp, in their order: those pushed, to idle_ only,
\* and those still to be pushed.  No timer is armed and nothing throws.
TodoInv ==
  /\ \/ pushedTo["idle_"] = <<>> /\ todo = <<hello, stopper>>
     \/ pushedTo["idle_"] = <<hello>> /\ todo = <<stopper>> /\ asked[hello] > 0
     \/ pushedTo["idle_"] = <<hello, stopper>> /\ todo = <<>> /\ asked[hello] > 0
  /\ pushedTo["runable_"] = <<>> /\ timer_ = {}
  /\ lp \notin {"threw", "deadlocked"}

Called(f) == \E i \in DOMAIN ranFrom["idle_"] : ranFrom["idle_"][i] = f

\* What was called was called from idle_, and only stopper ends the loop.
CalledInv ==
  /\ \A f \in Funcs : ran[f] > 0 => Called(f)
  /\ is_quit_ /\ lp # "before" => Called(stopper)
  /\ lp = "returned" => is_quit_

\* How far the creator, the new thread and the latch can be apart.
ThreadInv ==
  /\ cp \in {"start", "constructing", "constructed", "joining", "destroyed"}
  /\ tp \in {"none", "naming", "down", "func", "done"}
  /\ cp = "start" => tp = "none"
  /\ tp \in {"none", "naming", "down"} => lp = "before" /\ downs = 0
  /\ tp \in {"down", "func", "done"} => named
  /\ cp \in {"constructed", "joining", "destroyed"} => wp[Creator] = "passed"
  /\ cp \in {"joining", "destroyed"} => todo = <<>> /\ up[Creator] = <<>>
  /\ cp = "destroyed" => tp = "done"
  /\ tp = "done" => lp = "returned"

MainInv == LatchInv /\ LoopInv /\ TodoInv /\ CalledInv /\ ThreadInv

\* What a step of the program does, as far as the callbacks are concerned.
LEMMA MainCases ==
  ASSUME [Next]_vars
  PROVE  \/ main_push
         \/ UNCHANGED <<loopVars, todo>>
         \/ main_pushed
         \/ tp = "func" /\ (LoopStep \/ handle_io_source) /\ UNCHANGED <<threadVars, todo>>
BY DEF Next, Main, ThreadRun, main_return, vars

LEMMA OnlyTheTwo ==
  ASSUME MainProgram, LoopInv, TodoInv, funcs # <<>>
  PROVE  cur = "idle_" /\ Head(funcs) \in {hello, stopper}
<1>1. cur \in Vectors /\ funcs \in Seq(Funcs)
  BY DEF LoopInv, LoopTypeOK
<1>2. Pushed(pushedTo[cur], funcs)
  BY <1>1 DEF LoopInv, OrderInv, InOrder, Swapped
<1>3. 1 \in DOMAIN funcs /\ Head(funcs) = funcs[1]
  BY <1>1
<1>4. PICK k \in DOMAIN pushedTo[cur] : pushedTo[cur][k] = Head(funcs)
  BY <1>2, <1>3 DEF Pushed
<1>5. cur = "idle_"
  BY <1>1, <1>4 DEF TodoInv, Vectors
<1>6. \/ pushedTo["idle_"] = <<>>
      \/ pushedTo["idle_"] = <<hello>>
      \/ pushedTo["idle_"] = <<hello, stopper>>
  BY DEF TodoInv
<1> QED
  BY <1>4, <1>5, <1>6

\* The callbacks that the loop of main.cpp calls do not leave run() and arm no
\* timer; no timer is ever due.
LEMMA MainCall ==
  ASSUME MainProgram, LoopInv, TodoInv, handle_runnable
  PROVE  /\ Head(funcs) \in {hello, stopper} /\ cur = "idle_" /\ lp = "run"
         /\ lp' = "run" /\ timer_' = timer_ /\ cur' = cur /\ pushedTo' = pushedTo
         /\ asked' = asked
         /\ ran' = [ran EXCEPT ![Head(funcs)] = @ + 1]
         /\ ranFrom' = [ranFrom EXCEPT !["idle_"] = Append(@, Head(funcs))]
         /\ is_quit_' <=> is_quit_ \/ Head(funcs) = stopper
<1>1. cur = "idle_" /\ Head(funcs) \in {hello, stopper}
  BY OnlyTheTwo DEF handle_runnable
<1>2. PICK f \in {hello, stopper} : f = Head(funcs)
  BY <1>1
<1>3. Effect[f] \in {"none", "quit"} /\ (Effect[f] = "quit" <=> f = stopper)
  BY DEF MainProgram
<1>4. lp = "run" /\ Call(f) /\ pushedTo' = pushedTo
  BY <1>2 DEF handle_runnable
<1>5. lp' = lp /\ cur' = cur
  BY <1>3, <1>4 DEF Call
<1>6. timer_' = timer_ /\ asked' = asked
  BY <1>2, <1>3 DEF handle_runnable
<1>7. is_quit_' <=> is_quit_ \/ f = stopper
  BY <1>3, <1>4, Zenon DEF Call
<1>8. ran' = [ran EXCEPT ![f] = @ + 1]
  BY <1>4 DEF Call
<1>9. ranFrom' = [ranFrom EXCEPT !["idle_"] = Append(@, f)]
  BY <1>1, <1>2 DEF handle_runnable
<1> QED
  BY <1>1, <1>2, <1>4, <1>5, <1>6, <1>7, <1>8, <1>9

LEMMA NoTimer ==
  ASSUME TodoInv
  PROVE  ~handle_timer
BY DEF TodoInv, handle_timer, Top

LEMMA TodoStep ==
  ASSUME MainProgram, LoopInv, TodoInv, [Next]_vars
  PROVE  TodoInv'
<1>1. CASE main_push
  <2>1. /\ pushedTo' = [pushedTo EXCEPT !["idle_"] = Append(@, Head(todo))]
        /\ asked' = [asked EXCEPT ![Head(todo)] = 1]
        /\ todo # <<>> /\ todo' = Tail(todo)
        /\ timer_' = timer_ /\ lp' = lp
    BY <1>1 DEF main_push, pushRunable, push_enter, control, queues
  <2>2. pushedTo'["idle_"] = Append(pushedTo["idle_"], Head(todo))
        /\ pushedTo'["runable_"] = pushedTo["runable_"]
    BY <2>1 DEF LoopInv, LoopTypeOK, Vectors
  <2>3. CASE pushedTo["idle_"] = <<>> /\ todo = <<hello, stopper>>
    <3>1. Head(todo) = hello /\ Tail(todo) = <<stopper>>
          /\ Append(pushedTo["idle_"], hello) = <<hello>>
      BY <2>3
    <3>2. hello \in Funcs /\ asked \in [Funcs -> Nat]
      BY DEF MainProgram, LoopInv, LoopTypeOK
    <3> QED
      BY <2>1, <2>2, <3>1, <3>2 DEF TodoInv
  <2>4. CASE pushedTo["idle_"] = <<hello>> /\ todo = <<stopper>> /\ asked[hello] > 0
    <3>1. Head(todo) = stopper /\ Tail(todo) = <<>>
          /\ Append(pushedTo["idle_"], stopper) = <<hello, stopper>>
      <4>1. Head(<<stopper>>) = stopper /\ Tail(<<stopper>>) = <<>>
        OBVIOUS
      <4>2. Append(<<hello>>, stopper) = <<hello, stopper>>
        <5>1. hello \in Funcs /\ stopper \in Funcs
          BY DEF MainProgram
        <5> <<hello>> \in Seq(Funcs)
          BY <5>1
        <5>2. PICK h \in Seq(Funcs) : h = <<hello>>
          BY Zenon
        <5> Append(h, stopper) \in Seq(Funcs)
          BY <5>1
        <5>3. PICK a \in Seq(Funcs) : a = Append(h, stopper)
          BY Zenon
        <5>4. Len(h) = 1 /\ h[1] = hello
          BY <5>2
        <5>5. Len(a) = 2 /\ a[1] = hello /\ a[2] = stopper
          BY <5>1, <5>3, <5>4
        <5>6. a = <<hello, stopper>>
          BY <5>1, <5>5
        <5> QED
          BY <5>2, <5>3, <5>6, Zenon
      <4> QED
        BY <2>4, <4>1, <4>2
    <3>2. asked'[hello] > 0
      BY <2>1, <2>4, <3>1 DEF MainProgram, LoopInv, LoopTypeOK
    <3> QED
      BY <2>1, <2>2, <3>1, <3>2 DEF TodoInv
  <2> QED
    BY <2>1, <2>3, <2>4 DEF TodoInv
<1>2. CASE UNCHANGED <<loopVars, todo>>
  BY <1>2 DEF TodoInv, loopVars, control, queues, history
<1>3. CASE main_pushed
  BY <1>3 DEF main_pushed, push_leave, TodoInv, control, history
<1>4. CASE handle_runnable /\ todo' = todo
  BY <1>4, MainCall DEF TodoInv
<1>5. ASSUME todo' = todo,
             \/ run \/ check_quit \/ swap_enter \/ swap_leave \/ runnables_done
             \/ timer_enter \/ timer_leave \/ handle_io_source
      PROVE  TodoInv'
  <2>1. timer_' = timer_ /\ asked' = asked /\ pushedTo' = pushedTo
    BY <1>5 DEF run, check_quit, swap_enter, swap_leave, runnables_done, timer_enter,
                timer_leave, handle_io_source, queues, history
  <2>2. lp' \notin {"threw", "deadlocked"}
    BY <1>5 DEF run, check_quit, swap_enter, swap_leave, runnables_done, timer_enter,
                timer_leave, handle_io_source, Goto
  <2> QED
    BY <1>5, <2>1, <2>2 DEF TodoInv
<1> QED
  BY <1>1, <1>2, <1>3, <1>4, <1>5, MainCases, NoTimer DEF LoopStep

LEMMA CalledStep ==
  ASSUME MainProgram, LoopInv, TodoInv, CalledInv, [Next]_vars
  PROVE  CalledInv'
<1>1. CASE main_push \/ main_pushed \/ UNCHANGED <<loopVars, todo>>
  <2>1. UNCHANGED <<ran, ranFrom, is_quit_, lp>>
    BY <1>1 DEF main_push, pushRunable, push_enter, main_pushed, push_leave, control,
                history, loopVars
  <2> QED
    BY <2>1 DEF CalledInv, Called
<1>2. CASE handle_runnable
  <2>1. PICK f : f = Head(funcs)
    OBVIOUS
  <2>2. f \in {hello, stopper} /\ {hello, stopper} \subseteq Funcs
    BY <1>2, <2>1, MainCall DEF MainProgram
  <2>3. ranFrom'["idle_"] = Append(ranFrom["idle_"], f) /\ ranFrom["idle_"] \in Seq(Funcs)
    BY <1>2, <2>1, MainCall, Zenon DEF LoopInv, LoopTypeOK, Vectors
  <2>4. PICK s \in Seq(Funcs) : s = ranFrom["idle_"]
    BY <2>3
  <2>5. Called(f)' /\ \A g : Called(g) => Called(g)'
    <3>1. /\ \A i \in DOMAIN s : i \in DOMAIN Append(s, f) /\ Append(s, f)[i] = s[i]
          /\ Len(s) + 1 \in DOMAIN Append(s, f) /\ Append(s, f)[Len(s) + 1] = f
      BY <2>2
    <3> QED
      BY <2>3, <2>4, <3>1 DEF Called
  <2>6. \A g \in Funcs : ran'[g] > 0 => ran[g] > 0 \/ g = f
    BY <1>2, <2>1, MainCall, SMTT(30) DEF LoopInv, LoopTypeOK
  <2>7. lp' # "returned" /\ lp # "before" /\ (is_quit_' => is_quit_ \/ f = stopper)
    BY <1>2, <2>1, MainCall
  <2> QED
    BY <2>5, <2>6, <2>7 DEF CalledInv
<1>3. CASE \/ run \/ check_quit \/ swap_enter \/ swap_leave \/ runnables_done
           \/ timer_enter \/ timer_leave \/ handle_io_source
  <2>1. UNCHANGED <<ran, ranFrom>>
    BY <1>3 DEF run, check_quit, swap_enter, swap_leave, runnables_done, timer_enter,
                timer_leave, handle_io_source, history
  <2>2. /\ is_quit_' /\ lp' # "before" => is_quit_ /\ lp # "before"
        /\ lp' = "returned" => is_quit_'
    BY <1>3 DEF run, check_quit, swap_enter, swap_leave, runnables_done, timer_enter,
                timer_leave, handle_io_source, Goto
  <2> QED
    BY <2>1, <2>2 DEF CalledInv, Called
<1> QED
  BY <1>1, <1>2, <1>3, MainCases, NoTimer DEF LoopStep

LEMMA ThreadStep ==
  ASSUME MainProgram, LatchInv, LoopInv, TodoInv, ThreadInv, [Next]_vars
  PROVE  ThreadInv'
<1>1. Waiters = {Creator} /\ count = 1 /\ Creator \in Users
  BY DEF MainProgram, OnceLatch
<1>2. wp[Creator] = "passed" => downs >= 1
  BY <1>1 DEF LatchInv, LatchHolds
<1>3. wp \in [Waiters -> {"idle", "check", "blocked", "passed"}] /\ downs \in Nat
  BY CountAssumption DEF LatchInv, CountTypeOK
<1>4. CASE main_push
  BY <1>4, Zenon DEF main_push, pushRunable, push_enter, ThreadInv, threadVars, countVars,
                     control
<1>5. CASE main_pushed
  <2>1. UNCHANGED <<cp, tp, named, wp, downs, todo, lp>>
    BY <1>5 DEF main_pushed, push_leave, threadVars, countVars, control
  <2>2. up'[Creator] = <<>>
    BY <1>1, <1>5 DEF main_pushed, push_leave, LoopInv, LoopTypeOK
  <2> QED
    BY <2>1, <2>2 DEF ThreadInv
<1>6. CASE main_return
  BY <1>6 DEF main_return, destroy, ThreadInv, loopVars, sync, control, countVars
<1>7. CASE join /\ UNCHANGED <<loopVars, todo>>
  BY <1>7 DEF join, ThreadInv, loopVars, sync, control, countVars
<1>8. CASE (construct \/ once_wait \/ once_spurious) /\ UNCHANGED <<loopVars, todo>>
  <2>1. cp \notin {"constructed", "joining", "destroyed"} /\ downs' = downs
    BY <1>8 DEF construct, once_wait, once_spurious, wait, wait_check, wait_spurious
  <2>2. UNCHANGED <<lp, up, todo, named>>
    BY <1>8 DEF construct, once_wait, once_spurious, loopVars, sync, control
  <2>3. CASE construct
    BY <2>1, <2>2, <2>3 DEF construct, ThreadInv
  <2>4. CASE once_wait \/ once_spurious
    BY <2>1, <2>2, <2>4 DEF once_wait, once_spurious, ThreadInv
  <2> QED
    BY <1>8, <2>3, <2>4
<1>9. CASE constructed /\ UNCHANGED <<loopVars, todo>>
  BY <1>9 DEF constructed, ThreadInv, loopVars, sync, control, countVars
<1>10. CASE set_thread_name /\ UNCHANGED <<loopVars, todo>>
  BY <1>10 DEF set_thread_name, ThreadInv, loopVars, sync, control, countVars
<1>11. CASE once_down /\ UNCHANGED <<loopVars, todo>>
  <2>1. wp[Creator] = "passed" => wp'[Creator] = "passed"
    BY <1>1, <1>11 DEF once_down, down
  <2> QED
    BY <1>11, <2>1 DEF once_down, ThreadInv, loopVars, sync, control
<1>12. CASE tp = "func" /\ (LoopStep \/ handle_io_source) /\ UNCHANGED <<threadVars, todo>>
  <2>1. up' = up
    BY <1>12 DEF LoopStep, run, check_quit, swap_enter, swap_leave, handle_runnable,
                 runnables_done, timer_enter, handle_timer, timer_leave, handle_io_source, sync
  <2> QED
    BY <1>12, <2>1 DEF ThreadInv, threadVars, countVars
<1>13. CASE lp \in {"returned", "threw"} /\ func_return /\ UNCHANGED <<loopVars, todo>>
  BY <1>13 DEF func_return, TodoInv, ThreadInv, loopVars, sync, control, countVars
<1>14. CASE UNCHANGED vars
  BY <1>14 DEF vars, threadVars, ThreadInv, loopVars, sync, control, countVars
<1> QED
  BY <1>4, <1>5, <1>6, <1>7, <1>8, <1>9, <1>10, <1>11, <1>12, <1>13, <1>14
  DEF Next, Main, ThreadRun

LEMMA MainInitial == MainProgram /\ Init => MainInv
<1> SUFFICES ASSUME MainProgram, Init PROVE MainInv
  OBVIOUS
<1>1. LatchInv /\ LoopInv
  BY LatchInitially, LoopInitial DEF Init, ThreadInit
<1>2. TodoInv
  BY DEF Init, LoopInit, TodoInv, Vectors
<1>3. CalledInv
  BY DEF Init, LoopInit, CalledInv
<1>4. ThreadInv
  BY DEF Init, LoopInit, ThreadInit, CountInit, ThreadInv
<1> QED
  BY <1>1, <1>2, <1>3, <1>4 DEF MainInv

LEMMA TodoType ==
  ASSUME MainProgram, TodoInv
  PROVE  todo \in Seq(Funcs)
<1>1. hello \in Funcs /\ stopper \in Funcs
  BY DEF MainProgram
<1>2. <<hello, stopper>> \in Seq(Funcs) /\ <<stopper>> \in Seq(Funcs) /\ <<>> \in Seq(Funcs)
  BY <1>1
<1> QED
  BY <1>2, Zenon DEF TodoInv

LEMMA MainInductive == MainProgram /\ MainInv /\ [Next]_vars => MainInv'
<1> SUFFICES ASSUME MainProgram, MainInv, [Next]_vars PROVE MainInv'
  OBVIOUS
<1>1. todo \in Seq(Funcs)
  BY TodoType DEF MainInv
<1>2. [LoopNext]_loopVars /\ [CountNext]_countVars
  BY <1>1, MainSteps
<1>3. LoopInv' /\ LatchInv'
  BY <1>2, LoopInductive, LatchStep DEF MainInv
<1> QED
  BY <1>3, TodoStep, CalledStep, ThreadStep DEF MainInv

\* The program of main.cpp uses the Loop and the Count<1> only as Loop.tla and
\* Count.tla let threads use them: whatever those modules allow no step to do,
\* no step of the program does.
THEOREM MainUsesItsParts ==
  ASSUME MainProgram
  PROVE  Spec => /\ LoopInit /\ [][LoopNext]_loopVars
                 /\ CountInit /\ [][CountNext]_countVars
<1>1. Init => MainInv /\ LoopInit /\ CountInit
  BY MainInitial DEF Init, ThreadInit
<1>2. MainInv /\ [Next]_vars => MainInv'
  BY MainInductive
<1>3. MainInv /\ [Next]_vars => [LoopNext]_loopVars /\ [CountNext]_countVars
  BY TodoType, MainSteps DEF MainInv
<1> QED
  BY <1>1, <1>2, <1>3, PTL DEF Spec

LEMMA MainAlways ==
  ASSUME MainProgram
  PROVE  Spec => []MainInv
<1>1. Init => MainInv
  BY MainInitial
<1>2. MainInv /\ [Next]_vars => MainInv'
  BY MainInductive
<1> QED
  BY <1>1, <1>2, PTL DEF Spec

\* The constructor of Thread returns only to a creator whose thread bears its
\* name: set_thread_name is in front of once_.down() in the new thread.
THEOREM ConstructedIsNamed ==
  ASSUME MainProgram
  PROVE  Spec => []NamedWhenConstructed
<1>1. MainInv => NamedWhenConstructed
  <2> SUFFICES ASSUME MainInv, cp \in {"constructed", "joining", "destroyed"}
               PROVE  named
    BY DEF NamedWhenConstructed
  <2>1. Waiters = {Creator} /\ count = 1
    BY DEF MainProgram, OnceLatch
  <2>2. downs >= 1
    BY <2>1 DEF MainInv, ThreadInv, LatchInv, LatchHolds
  <2> QED
    BY <2>2 DEF MainInv, ThreadInv
<1> QED
  BY <1>1, MainAlways, PTL

\* The assertion of ~Loop holds at the end of main.cpp: ~Thread has joined the
\* thread that ran the loop, and nothing but the callback that calls quit()
\* made the loop return.
THEOREM MainAssertionHolds ==
  ASSUME MainProgram
  PROVE  Spec => []AssertionHolds
<1>1. MainInv => AssertionHolds
  BY DEF MainInv, ThreadInv, CalledInv, AssertionHolds
<1> QED
  BY <1>1, MainAlways, PTL

\* In the order of main.cpp's pushes nothing follows stopper.
LEMMA NothingFollows ==
  ASSUME MainProgram, LoopInv, TodoInv, Called(stopper), todo = <<>>
  PROVE  /\ \A i \in DOMAIN vec["idle_"] : vec["idle_"][i] # hello
         /\ cur = "idle_" => \A i \in DOMAIN funcs : funcs[i] # hello
<1> DEFINE p == pushedTo["idle_"]
<1>1. p = <<hello, stopper>> /\ hello # stopper
  BY DEF TodoInv, MainProgram
<1>2. /\ Follow(p, ranFrom["idle_"], vec["idle_"])
      /\ cur = "idle_" => Follow(p, ranFrom["idle_"], funcs)
  BY Zenon DEF LoopInv, OrderInv, InOrder, Swapped, Vectors
<1>3. ~Before(p, stopper, hello)
  <2> SUFFICES ASSUME NEW k \in DOMAIN p, NEW l \in DOMAIN p, k < l
               PROVE  ~(p[k] = stopper /\ p[l] = hello)
    BY DEF Before
  <2> QED
    BY <1>1
<1> HIDE DEF p
<1> QED
  BY <1>2, <1>3, Zenon DEF Follow, Called

LEMMA NothingElsewhere ==
  ASSUME LoopInv, TodoInv
  PROVE  vec["runable_"] = <<>> /\ (cur = "runable_" => funcs = <<>>)
<1>1. /\ Pushed(pushedTo["runable_"], vec["runable_"]) /\ pushedTo["runable_"] = <<>>
      /\ cur = "runable_" => Pushed(pushedTo["runable_"], funcs)
  BY DEF LoopInv, OrderInv, InOrder, Swapped, Vectors, TodoInv
<1>2. vec["runable_"] \in Seq(Funcs) /\ funcs \in Seq(Funcs)
  BY DEF LoopInv, LoopTypeOK, Vectors
<1>3. ASSUME NEW s \in Seq(Funcs), Pushed(<<>>, s) PROVE s = <<>>
  <2>1. \A i \in DOMAIN s : \E k \in DOMAIN <<>> : <<>>[k] = s[i]
    BY <1>3, Zenon DEF Pushed
  <2>2. DOMAIN <<>> = {}
    OBVIOUS
  <2>3. DOMAIN s = {}
    BY <2>1, <2>2, Zenon
  <2> QED
    BY <2>3
<1> QED
  BY <1>1, <1>2, <1>3

\* Nothing is counted where a callback does not occur.
LEMMA OccNone ==
  ASSUME NEW f, NEW s, \A i \in DOMAIN s : s[i] # f
  PROVE  Occurrences(f, s) = 0
<1>1. {i \in DOMAIN s : s[i] = f} = {}
  OBVIOUS
<1> QED
  BY <1>1, FS_EmptySet DEF Occurrences

\* Once the join is over both callbacks have been called.
LEMMA BothCalledAtEnd ==
  ASSUME MainProgram, MainInv, cp = "destroyed", ~raced
  PROVE  Called(hello) /\ Called(stopper) /\ todo = <<>>
<1>1. lp = "returned" /\ todo = <<>> /\ up[Creator] = <<>>
  BY DEF MainInv, ThreadInv
<1>2. Called(stopper)
  BY <1>1 DEF MainInv, CalledInv
<1>3. hello \in Funcs /\ Users = {Creator}
  BY DEF MainProgram
<1>4. /\ \A i \in DOMAIN vec["idle_"] : vec["idle_"][i] # hello
      /\ \A i \in DOMAIN vec["runable_"] : vec["runable_"][i] # hello
      /\ \A i \in DOMAIN funcs : funcs[i] # hello
  <2>1. cur \in {"idle_", "runable_"}
    BY DEF MainInv, LoopInv, LoopTypeOK, Vectors
  <2>2. vec["runable_"] = <<>> /\ (cur = "runable_" => funcs = <<>>)
    BY NothingElsewhere DEF MainInv
  <2> QED
    BY <1>1, <1>2, <2>1, <2>2, NothingFollows DEF MainInv
<1>5. /\ Occurrences(hello, vec["idle_"]) = 0 /\ Occurrences(hello, vec["runable_"]) = 0
      /\ Occurrences(hello, funcs) = 0
  BY <1>4, OccNone
<1>6. {e \in timer_ : e[2] = hello} = {} /\ {u \in Users : up[u] # <<>> /\ up[u][2] = hello} = {}
  BY <1>1, <1>3 DEF MainInv, TodoInv
<1>7. Pending(hello) = 0
  <2>1. /\ Cardinality({e \in timer_ : e[2] = hello}) = 0
        /\ Cardinality({u \in Users : up[u] # <<>> /\ up[u][2] = hello}) = 0
    BY <1>6, FS_EmptySet, Zenon
  <2> QED
    BY <1>5, <2>1 DEF Pending
<1>8. asked[hello] = ran[hello] + Pending(hello) /\ asked[hello] > 0
  BY <1>1, <1>3 DEF MainInv, LoopInv, EverySubmissionCounts, TodoInv
<1>9. ran[hello] \in Nat
  BY <1>3 DEF MainInv, LoopInv, LoopTypeOK
<1>10. ran[hello] > 0
  BY <1>7, <1>8, <1>9
<1> QED
  BY <1>1, <1>2, <1>3, <1>10 DEF MainInv, CalledInv

\* main() of main.cpp is left only after both callbacks have been called, in
\* the order of their pushes, unless a push overlapped with the loop's swap.
THEOREM MainCallsBoth ==
  ASSUME MainProgram
  PROVE  Spec => []BothCalled
<1>1. MainInv => BothCalled
  <2> SUFFICES ASSUME MainInv, cp = "destroyed", ~raced
               PROVE  ranFrom["idle_"] = <<hello, stopper>>
    BY DEF BothCalled
  <2>1. Called(hello) /\ Called(stopper) /\ todo = <<>>
    BY BothCalledAtEnd
  <2>2. pushedTo["idle_"] = <<hello, stopper>>
    BY <2>1 DEF MainInv, TodoInv
  <2>3. hello # stopper /\ hello \in Funcs /\ stopper \in Funcs
    BY DEF MainProgram
  <2>4. PICK r \in Seq(Funcs) : r = ranFrom["idle_"]
    BY DEF MainInv, LoopInv, LoopTypeOK, Vectors
  <2>5. Ordered(<<hello, stopper>>, r)
    BY <2>2, <2>4 DEF MainInv, LoopInv, OrderInv, InOrder, Vectors
  <2>6. \A f, g : Before(<<hello, stopper>>, f, g) => f = hello /\ g = stopper
    BY DEF Before
  <2>7. \A i, j \in DOMAIN r : i < j => r[i] = hello /\ r[j] = stopper
    BY <2>5, <2>6, Zenon DEF Ordered
  <2>8. PICK i \in DOMAIN r : r[i] = hello
    BY <2>1, <2>4 DEF Called
  <2>9. PICK j \in DOMAIN r : r[j] = stopper
    BY <2>1, <2>4 DEF Called
  <2>10. PICK n \in Nat : n = Len(r) /\ DOMAIN r = 1 .. n
    OBVIOUS
  <2>11. n >= 2
    BY <2>3, <2>8, <2>9, <2>10
  <2>12. n <= 2
    <3> SUFFICES ASSUME n >= 3 PROVE FALSE
      BY <2>10
    <3>1. 1 \in DOMAIN r /\ 2 \in DOMAIN r /\ 3 \in DOMAIN r
      BY <2>10
    <3> QED
      BY <2>3, <2>7, <3>1
  <2>13. n = 2 /\ r[1] = hello /\ r[2] = stopper
    BY <2>7, <2>10, <2>11, <2>12
  <2> QED
    BY <2>3, <2>4, <2>10, <2>13
<1> QED
  BY <1>1, MainAlways, PTL

=============================================================================
