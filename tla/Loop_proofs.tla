----------------------------- MODULE Loop_proofs -----------------------------
(***************************************************************************)
(* set/loop/Loop.cpp, for any number of threads and of callbacks: no       *)
(* callback is lost or called twice unless a push raced with a swap, and   *)
(* race or not the callbacks of a vector are called in the order of their  *)
(* pushes.  What makes both true is the pushers' own mutex: one thread at  *)
(* a time appends to a vector, in the order the threads got the mutex.     *)
(***************************************************************************)
EXTENDS Loop, FiniteSetTheorems, SequenceTheorems, TLAPS

Labels == {"before", "check", "lock", "swap", "run", "io", "timer_lock", "timer",
           "returned", "threw", "deadlocked"}

LoopTypeOK ==
  /\ lp \in Labels /\ cur \in Vectors /\ raced \in BOOLEAN
  /\ timer_ \subseteq Nat \X Funcs /\ IsFiniteSet(timer_) /\ now \in Nat
  /\ vec \in [Vectors -> Seq(Funcs)] /\ funcs \in Seq(Funcs)
  /\ owner \in [Mutexes -> Users \cup {Nobody, LoopThread}]
  /\ up \in [Users -> {<<>>} \cup (Vectors \X Funcs)]
  /\ asked \in [Funcs -> Nat] /\ ran \in [Funcs -> Nat]
  /\ pushedTo \in [Vectors -> Seq(Funcs)] /\ ranFrom \in [Vectors -> Seq(Funcs)]

\* A thread inside emplace_back, and the loop inside the swap, hold the mutex
\* they have taken: two threads never push to one vector at a time.
Excluded ==
  /\ \A u \in Users : up[u] # <<>> => owner[PushMutex(up[u][1])] = u
  /\ lp = "swap" => owner[SwapMutex(cur)] = LoopThread

\* Callbacks are left in funcs only while they are being called.
CallsAll == lp \notin {"run", "deadlocked"} => funcs = <<>>

-----------------------------------------------------------------------------
(* p: what was pushed to a vector; r: what was called from it; q: what was *)
(* swapped out of it; w: what is still in it.                              *)

Before(p, f, g) == \E k, l \in DOMAIN p : k < l /\ p[k] = f /\ p[l] = g
Ordered(p, s) == \A i, j \in DOMAIN s : i < j => Before(p, s[i], s[j])
Follow(p, s, t) == \A i \in DOMAIN s, j \in DOMAIN t : Before(p, s[i], t[j])
Pushed(p, s) == \A i \in DOMAIN s : \E k \in DOMAIN p : p[k] = s[i]

InOrder(p, r, q, w) ==
  /\ Ordered(p, r) /\ Ordered(p, q) /\ Ordered(p, w)
  /\ Follow(p, r, q) /\ Follow(p, r, w) /\ Follow(p, q, w)
  /\ Pushed(p, r) /\ Pushed(p, q) /\ Pushed(p, w)

Swapped(v) == IF v = cur THEN funcs ELSE <<>>

\* What is called from a vector, swapped out of it, in it, and being appended
\* to it follows the order of the pushes.
OrderInv ==
  \A v \in Vectors :
    /\ InOrder(pushedTo[v], ranFrom[v], Swapped(v), vec[v])
    /\ \A u \in Users : up[u] # <<>> /\ up[u][1] = v =>
         InOrder(pushedTo[v], ranFrom[v], Swapped(v), Append(vec[v], up[u][2]))

\* Where a callback is pending, in numbers.
InVectors(f) == Occurrences(f, vec["idle_"]) + Occurrences(f, vec["runable_"])
Pushers(f) == {u \in Users : up[u] # <<>> /\ up[u][2] = f}
TimersOf(T, f) == {e \in T : e[2] = f}
Timers(f) == TimersOf(timer_, f)
Vectored(f) == InVectors(f) + Occurrences(f, funcs) + Cardinality(Pushers(f))

\* The states EverySubmissionCounts is about.
Orderly == ~raced /\ lp \notin {"threw", "deadlocked"}

\* A callback that has armed a timer for itself is in no vector any more.
RearmedOnce == Orderly => \A f \in Funcs : asked[f] > 1 => Vectored(f) = 0

LoopInv == /\ LoopTypeOK /\ Excluded /\ CallsAll /\ OrderInv
           /\ RearmedOnce /\ EverySubmissionCounts

-----------------------------------------------------------------------------
(* The order: appending to what was pushed and to the vector, swapping the *)
(* vector out, calling the first or dropping the others.                   *)

LEMMA PushKeepsOrder ==
  ASSUME NEW p \in Seq(Funcs), NEW r \in Seq(Funcs), NEW q \in Seq(Funcs),
         NEW w \in Seq(Funcs), NEW f \in Funcs, InOrder(p, r, q, w)
  PROVE  /\ InOrder(Append(p, f), r, q, w)
         /\ InOrder(Append(p, f), r, q, Append(w, f))
<1> DEFINE pf == Append(p, f)
           wf == Append(w, f)
<1>1. /\ DOMAIN p = 1 .. Len(p) /\ DOMAIN pf = 1 .. Len(p) + 1 /\ Len(p) \in Nat
      /\ \A k \in DOMAIN p : pf[k] = p[k]
      /\ pf[Len(p) + 1] = f
  OBVIOUS
<1>2. /\ DOMAIN w = 1 .. Len(w) /\ DOMAIN wf = 1 .. Len(w) + 1 /\ Len(w) \in Nat
      /\ \A i \in DOMAIN w : wf[i] = w[i]
      /\ wf[Len(w) + 1] = f
  OBVIOUS
<1> HIDE DEF pf, wf
<1>3. ASSUME NEW x, NEW y, Before(p, x, y) PROVE Before(pf, x, y)
  BY <1>1, <1>3 DEF Before
<1>4. ASSUME NEW k \in DOMAIN p PROVE Before(pf, p[k], f)
  BY <1>1, SMTT(30) DEF Before
<1>5. ASSUME NEW s, Pushed(p, s)
      PROVE  Pushed(pf, s) /\ \A i \in DOMAIN s : Before(pf, s[i], f)
  BY <1>1, <1>4, <1>5 DEF Pushed
<1>6. ASSUME NEW s, Ordered(p, s) PROVE Ordered(pf, s)
  BY <1>3, <1>6 DEF Ordered
<1>7. ASSUME NEW s, NEW t, Follow(p, s, t) PROVE Follow(pf, s, t)
  BY <1>3, <1>7 DEF Follow
<1>8. InOrder(pf, r, q, w)
  BY <1>5, <1>6, <1>7 DEF InOrder
<1>9. ASSUME NEW s, Follow(pf, s, w), Pushed(p, s) PROVE Follow(pf, s, wf)
  <2> SUFFICES ASSUME NEW i \in DOMAIN s, NEW j \in DOMAIN wf PROVE Before(pf, s[i], wf[j])
    BY DEF Follow
  <2>1. CASE j \in DOMAIN w
    BY <1>2, <1>9, <2>1 DEF Follow
  <2>2. CASE j = Len(w) + 1
    BY <1>2, <1>5, <1>9, <2>2
  <2> QED
    BY <1>2, <2>1, <2>2
<1>10. Ordered(pf, wf)
  <2> SUFFICES ASSUME NEW i \in DOMAIN wf, NEW j \in DOMAIN wf, i < j
               PROVE  Before(pf, wf[i], wf[j])
    BY DEF Ordered
  <2>1. i \in DOMAIN w /\ wf[i] = w[i]
    BY <1>2
  <2>2. CASE j \in DOMAIN w
    BY <1>2, <1>8, <2>1, <2>2 DEF InOrder, Ordered
  <2>3. CASE j = Len(w) + 1
    BY <1>2, <1>5, <2>1, <2>3 DEF InOrder
  <2> QED
    BY <1>2, <2>2, <2>3
<1>11. Pushed(pf, wf)
  <2> SUFFICES ASSUME NEW i \in DOMAIN wf PROVE \E k \in DOMAIN pf : pf[k] = wf[i]
    BY DEF Pushed
  <2>1. CASE i \in DOMAIN w
    BY <1>2, <1>8, <2>1 DEF InOrder, Pushed
  <2>2. CASE i = Len(w) + 1
    <3>1. Len(p) + 1 \in DOMAIN pf
      BY <1>1
    <3>2. pf[Len(p) + 1] = wf[i]
      BY <1>1, <1>2, <2>2
    <3> QED
      BY <3>1, <3>2
  <2> QED
    BY <1>2, <2>1, <2>2
<1>12. InOrder(pf, r, q, wf)
  BY <1>8, <1>9, <1>10, <1>11 DEF InOrder
<1> QED
  BY <1>8, <1>12 DEF pf, wf

LEMMA SwapKeepsOrder ==
  ASSUME NEW p \in Seq(Funcs), NEW r \in Seq(Funcs), NEW w \in Seq(Funcs),
         InOrder(p, r, <<>>, w)
  PROVE  InOrder(p, r, w, <<>>)
BY DEF InOrder, Ordered, Follow, Pushed

LEMMA SwapPushKeepsOrder ==
  ASSUME NEW p \in Seq(Funcs), NEW r \in Seq(Funcs), NEW w \in Seq(Funcs), NEW f \in Funcs,
         InOrder(p, r, <<>>, Append(w, f))
  PROVE  InOrder(p, r, w, Append(<<>>, f))
<1> DEFINE wf == Append(w, f)
           e == Append(<<>>, f)
<1>1. /\ DOMAIN w = 1 .. Len(w) /\ DOMAIN wf = 1 .. Len(w) + 1 /\ Len(w) \in Nat
      /\ \A i \in DOMAIN w : wf[i] = w[i]
      /\ wf[Len(w) + 1] = f
  OBVIOUS
<1>2. DOMAIN e = {1} /\ e[1] = f
  OBVIOUS
<1>3. InOrder(p, r, <<>>, wf)
  OBVIOUS
<1> HIDE DEF wf, e
<1>4. Ordered(p, w) /\ Follow(p, r, w) /\ Pushed(p, w)
  <2>1. Ordered(p, w)
    BY <1>1, <1>3 DEF InOrder, Ordered
  <2>2. Follow(p, r, w)
    BY <1>1, <1>3 DEF InOrder, Follow
  <2>3. Pushed(p, w)
    BY <1>1, <1>3 DEF InOrder, Pushed
  <2> QED
    BY <2>1, <2>2, <2>3
<1>5. Ordered(p, e) /\ Follow(p, r, e) /\ Pushed(p, e)
  <2>1. Ordered(p, e)
    BY <1>2 DEF Ordered
  <2>2. Len(w) + 1 \in DOMAIN wf
    BY <1>1
  <2>3. Follow(p, r, e)
    BY <1>1, <1>2, <1>3, <2>2 DEF InOrder, Follow
  <2>4. Pushed(p, e)
    BY <1>1, <1>2, <1>3, <2>2, SMTT(30) DEF InOrder, Pushed
  <2> QED
    BY <2>1, <2>3, <2>4
<1>6. Follow(p, w, e)
  <2> SUFFICES ASSUME NEW i \in DOMAIN w, NEW j \in DOMAIN e PROVE Before(p, w[i], e[j])
    BY DEF Follow
  <2>1. Ordered(p, wf)
    BY <1>3 DEF InOrder
  <2>2. i \in DOMAIN wf /\ Len(w) + 1 \in DOMAIN wf /\ i < Len(w) + 1
    BY <1>1
  <2>3. Before(p, wf[i], wf[Len(w) + 1])
    BY <2>1, <2>2 DEF Ordered
  <2>4. wf[i] = w[i] /\ wf[Len(w) + 1] = e[j]
    BY <1>1, <1>2
  <2> QED
    BY <2>3, <2>4
<1> QED
  BY <1>3, <1>4, <1>5, <1>6 DEF InOrder, e

LEMMA CallKeepsOrder ==
  ASSUME NEW p \in Seq(Funcs), NEW r \in Seq(Funcs), NEW q \in Seq(Funcs),
         NEW w \in Seq(Funcs), q # <<>>, InOrder(p, r, q, w)
  PROVE  /\ InOrder(p, Append(r, Head(q)), Tail(q), w)
         /\ InOrder(p, Append(r, Head(q)), <<>>, w)
<1> DEFINE f == Head(q)
           rf == Append(r, f)
           t == Tail(q)
<1>1. /\ DOMAIN r = 1 .. Len(r) /\ DOMAIN rf = 1 .. Len(r) + 1 /\ Len(r) \in Nat
      /\ \A i \in DOMAIN r : rf[i] = r[i]
      /\ rf[Len(r) + 1] = f
  OBVIOUS
<1>2. /\ DOMAIN q = 1 .. Len(q) /\ Len(q) \in Nat \ {0} /\ q[1] = f
      /\ DOMAIN t = 1 .. Len(q) - 1 /\ \A i \in DOMAIN t : t[i] = q[i + 1]
  OBVIOUS
<1> HIDE DEF f, rf, t
<1>3. Ordered(p, t) /\ Follow(p, t, w) /\ Follow(p, r, t) /\ Pushed(p, t)
  <2>1. \A i \in DOMAIN t : i + 1 \in DOMAIN q /\ t[i] = q[i + 1]
    BY <1>2
  <2>2. \A i, j \in DOMAIN t : i < j => i + 1 < j + 1
    BY <1>2
  <2>3. Ordered(p, t)
    BY <2>1, <2>2 DEF InOrder, Ordered
  <2>4. Follow(p, t, w) /\ Follow(p, r, t)
    BY <2>1 DEF InOrder, Follow
  <2>5. Pushed(p, t)
    BY <2>1 DEF InOrder, Pushed
  <2> QED
    BY <2>3, <2>4, <2>5
<1>4. Ordered(p, rf)
  <2> SUFFICES ASSUME NEW i \in DOMAIN rf, NEW j \in DOMAIN rf, i < j
               PROVE  Before(p, rf[i], rf[j])
    BY DEF Ordered
  <2>1. CASE j \in DOMAIN r
    BY <1>1, <2>1 DEF InOrder, Ordered
  <2>2. CASE j = Len(r) + 1
    BY <1>1, <1>2, <2>2 DEF InOrder, Follow
  <2> QED
    BY <1>1, <2>1, <2>2
<1>5. Pushed(p, rf)
  <2> SUFFICES ASSUME NEW i \in DOMAIN rf PROVE \E k \in DOMAIN p : p[k] = rf[i]
    BY DEF Pushed
  <2>1. CASE i \in DOMAIN r
    BY <1>1, <2>1 DEF InOrder, Pushed
  <2>2. CASE i = Len(r) + 1
    <3>1. 1 \in DOMAIN q
      BY <1>2
    <3>2. rf[i] = q[1]
      BY <1>1, <1>2, <2>2
    <3> QED
      BY <3>1, <3>2 DEF InOrder, Pushed
  <2> QED
    BY <1>1, <2>1, <2>2
<1>6. Follow(p, rf, w)
  <2> SUFFICES ASSUME NEW i \in DOMAIN rf, NEW j \in DOMAIN w PROVE Before(p, rf[i], w[j])
    BY DEF Follow
  <2>1. CASE i \in DOMAIN r
    BY <1>1, <2>1 DEF InOrder, Follow
  <2>2. CASE i = Len(r) + 1
    <3>1. 1 \in DOMAIN q /\ rf[i] = q[1]
      BY <1>1, <1>2, <2>2
    <3> QED
      BY <3>1 DEF InOrder, Follow
  <2> QED
    BY <1>1, <2>1, <2>2
<1>7. Follow(p, rf, t)
  <2> SUFFICES ASSUME NEW i \in DOMAIN rf, NEW j \in DOMAIN t PROVE Before(p, rf[i], t[j])
    BY DEF Follow
  <2>1. CASE i \in DOMAIN r
    BY <1>1, <1>3, <2>1 DEF Follow
  <2>2. CASE i = Len(r) + 1
    <3>1. 1 \in DOMAIN q /\ j + 1 \in DOMAIN q /\ 1 < j + 1 /\ t[j] = q[j + 1]
      BY <1>2
    <3>2. rf[i] = q[1]
      BY <1>1, <1>2, <2>2
    <3> QED
      BY <3>1, <3>2 DEF InOrder, Ordered
  <2> QED
    BY <1>1, <2>1, <2>2
<1>8. InOrder(p, rf, t, w)
  BY <1>3, <1>4, <1>5, <1>6, <1>7 DEF InOrder
<1>9. InOrder(p, rf, <<>>, w)
  BY <1>4, <1>5, <1>6 DEF InOrder, Ordered, Follow, Pushed
<1> QED
  BY <1>8, <1>9 DEF f, rf, t

-----------------------------------------------------------------------------
(* Occurrences in a sequence.                                              *)

LEMMA OccType ==
  ASSUME NEW S, NEW s \in Seq(S), NEW c
  PROVE  IsFiniteSet({i \in DOMAIN s : s[i] = c}) /\ Occurrences(c, s) \in Nat
<1>1. DOMAIN s = 1 .. Len(s) /\ Len(s) \in Nat
  OBVIOUS
<1>2. IsFiniteSet(1 .. Len(s))
  BY <1>1, FS_Interval
<1>3. IsFiniteSet({i \in DOMAIN s : s[i] = c})
  BY <1>1, <1>2, FS_Subset
<1> QED
  BY <1>3, FS_CardinalityType DEF Occurrences

LEMMA OccEmpty ==
  ASSUME NEW c
  PROVE  Occurrences(c, <<>>) = 0
<1>1. {i \in DOMAIN <<>> : <<>>[i] = c} = {}
  OBVIOUS
<1> QED
  BY <1>1, FS_EmptySet DEF Occurrences

LEMMA OccAppend ==
  ASSUME NEW S, NEW s \in Seq(S), NEW e \in S, NEW c
  PROVE  Occurrences(c, Append(s, e)) = Occurrences(c, s) + (IF e = c THEN 1 ELSE 0)
<1> DEFINE old == {i \in DOMAIN s : s[i] = c}
           new == {i \in DOMAIN Append(s, e) : Append(s, e)[i] = c}
<1>1. /\ DOMAIN s = 1 .. Len(s) /\ Len(s) \in Nat
      /\ DOMAIN Append(s, e) = 1 .. Len(s) + 1
      /\ \A i \in 1 .. Len(s) : Append(s, e)[i] = s[i]
      /\ Append(s, e)[Len(s) + 1] = e
  OBVIOUS
<1>2. IsFiniteSet(old) /\ Cardinality(old) \in Nat
  BY OccType, Zenon DEF Occurrences
<1>2a. Occurrences(c, s) = Cardinality(old) /\ Occurrences(c, Append(s, e)) = Cardinality(new)
  BY DEF Occurrences
<1>3. CASE e = c
  <2>1. new = old \cup {Len(s) + 1} /\ Len(s) + 1 \notin old
    BY <1>1, <1>3
  <2> HIDE DEF old, new
  <2> QED
    BY <1>2, <1>2a, <1>3, <2>1, FS_AddElement, ZenonT(30)
<1>4. CASE e # c
  <2>1. new = old
    BY <1>1, <1>4
  <2> HIDE DEF old, new
  <2> QED
    BY <1>2, <1>2a, <1>4, <2>1
<1> QED
  BY <1>3, <1>4

LEMMA OccTail ==
  ASSUME NEW S, NEW s \in Seq(S), s # <<>>, NEW c
  PROVE  Occurrences(c, s) = Occurrences(c, Tail(s)) + (IF Head(s) = c THEN 1 ELSE 0)
<1> DEFINE old == {i \in DOMAIN Tail(s) : Tail(s)[i] = c}
           moved == {i \in 2 .. Len(s) : s[i] = c}
           all == {i \in DOMAIN s : s[i] = c}
           f == [i \in old |-> i + 1]
<1>1. /\ Tail(s) \in Seq(S) /\ Len(Tail(s)) = Len(s) - 1
      /\ \A i \in 1 .. Len(s) - 1 : Tail(s)[i] = s[i + 1]
      /\ DOMAIN s = 1 .. Len(s) /\ Len(s) \in Nat /\ Len(s) > 0
      /\ DOMAIN Tail(s) = 1 .. Len(s) - 1 /\ Head(s) = s[1]
  OBVIOUS
<1>2. IsFiniteSet(old) /\ Cardinality(old) \in Nat
  BY <1>1, OccType, Zenon DEF Occurrences
<1>3. ExistsBijection(old, moved)
  <2>1. f \in [old -> moved] /\ \A a, b \in old : f[a] = f[b] => a = b
    BY <1>1
  <2>2. \A t \in moved : \E a \in old : f[a] = t
    <3> TAKE t \in moved
    <3>1. t - 1 \in old /\ f[t - 1] = t
      BY <1>1
    <3> QED
      BY <3>1, Zenon
  <2>3. f \in Bijection(old, moved)
    BY <2>1, <2>2 DEF Bijection, Injection, Surjection, IsInjective
  <2> QED
    BY <2>3 DEF ExistsBijection
<1>4. IsFiniteSet(moved) /\ Cardinality(moved) = Cardinality(old)
  BY <1>2, <1>3, FS_Bijection, Zenon
<1>4a. Occurrences(c, Tail(s)) = Cardinality(old) /\ Occurrences(c, s) = Cardinality(all)
  BY DEF Occurrences
<1>5. CASE Head(s) = c
  <2>1. all = moved \cup {1} /\ 1 \notin moved
    BY <1>1, <1>5
  <2> HIDE DEF old, moved, all
  <2>2. Cardinality(all) = Cardinality(moved) + 1
    BY <1>4, <2>1, FS_AddElement
  <2> QED
    BY <1>2, <1>4, <1>4a, <1>5, <2>2
<1>6. CASE Head(s) # c
  <2>1. all = moved
    BY <1>1, <1>6
  <2> HIDE DEF old, moved, all
  <2> QED
    BY <1>2, <1>4, <1>4a, <1>6, <2>1
<1> QED
  BY <1>5, <1>6


-----------------------------------------------------------------------------
(* The steps, by what they do to the callbacks.                            *)

\* These move no callback; runnables_done changes cur when funcs is empty.
Idle == run \/ check_quit \/ swap_enter \/ runnables_done \/ handle_io_source
          \/ timer_enter \/ timer_leave \/ Tick \/ \E u \in Users : quit(u)

LEMMA Steps ==
  ASSUME [LoopNext]_loopVars
  PROVE  \/ Idle \/ UNCHANGED loopVars
         \/ swap_leave \/ handle_runnable \/ handle_timer
         \/ \E u \in Users : push_leave(u)
         \/ \E u \in Users, v \in Vectors, f \in Funcs : push_enter(u, v, f)
         \/ \E u \in Users, f \in Funcs, at \in 0 .. MaxTime : runAt(u, at, f)
BY DEF LoopNext, LoopStep, UserStep, Idle, pushIdle, pushRunable, Vectors

LEMMA IdleMovesNothing ==
  ASSUME Idle \/ UNCHANGED loopVars
  PROVE  /\ UNCHANGED <<queues, up, raced, history>>
         /\ cur' = cur \/ (cur' \in Vectors /\ funcs = <<>>)
BY DEF Idle, run, check_quit, swap_enter, runnables_done, handle_io_source, timer_enter,
       timer_leave, Tick, quit, Goto, loopVars, control, sync, Vectors

\* What Call does to the loop, apart from calling f.
LEMMA FirstIsCallback ==
  ASSUME LoopTypeOK, handle_runnable
  PROVE  Head(funcs) \in Funcs
<1>1. funcs \in Seq(Funcs)
  BY DEF LoopTypeOK
<1>2. funcs # <<>>
  BY DEF handle_runnable
<1> QED
  BY <1>1, <1>2

LEMMA BeingPushed ==
  ASSUME LoopTypeOK, NEW u \in Users, up[u] # <<>>
  PROVE  \E v \in Vectors, f \in Funcs : up[u] = <<v, f>>
<1>1. up[u] \in {<<>>} \cup (Vectors \X Funcs)
  BY DEF LoopTypeOK
<1>2. PICK x \in Vectors \X Funcs : x = up[u]
  BY <1>1
<1>3. x[1] \in Vectors /\ x[2] \in Funcs /\ x = <<x[1], x[2]>>
  OBVIOUS
<1> QED
  BY <1>2, <1>3

LEMMA Calls ==
  ASSUME NEW f \in Funcs, Call(f), LoopTypeOK
  PROVE  /\ lp' \in {lp, "threw", "deadlocked"} /\ cur' = cur
         /\ ran' = [ran EXCEPT ![f] = @ + 1] /\ ran' \in [Funcs -> Nat]
         /\ lp # "threw" => (Effect[f] = "throw" <=> lp' = "threw")
<1>1. /\ cur' = cur /\ ran' = [ran EXCEPT ![f] = @ + 1]
      /\ lp' = CASE Effect[f] = "throw" -> "threw"
                 [] Effect[f] = "runAt" /\ owner["time_mut_"] = LoopThread -> "deadlocked"
                 [] OTHER -> lp
  BY DEF Call
<1>2. ran' \in [Funcs -> Nat]
  BY <1>1 DEF LoopTypeOK
<1> QED
  BY <1>1, <1>2

LEMMA TimerAdded ==
  ASSUME NEW T, IsFiniteSet(T), T \subseteq Nat \X Funcs, NEW t \in Nat, NEW f \in Funcs
  PROVE  T \cup {<<t, f>>} \subseteq Nat \X Funcs /\ IsFiniteSet(T \cup {<<t, f>>})
<1>1. IsFiniteSet(T \cup {<<t, f>>})
  BY FS_AddElement, Zenon
<1> QED
  BY <1>1

LEMMA TypeStep == LoopTypeOK /\ [LoopNext]_loopVars => LoopTypeOK'
<1> SUFFICES ASSUME LoopTypeOK, [LoopNext]_loopVars PROVE LoopTypeOK'
  OBVIOUS
<1> USE DEF LoopTypeOK
<1>1. CASE Idle \/ UNCHANGED loopVars
  <2>1. lp' \in Labels /\ cur' \in Vectors /\ now' \in Nat
    BY <1>1, LoopAssumption, SMTT(30)
       DEF Idle, run, check_quit, swap_enter, runnables_done, handle_io_source, timer_enter,
           timer_leave, Tick, quit, Goto, loopVars, control, sync, Vectors, Labels
  <2>2. owner' \in [Mutexes -> Users \cup {Nobody, LoopThread}]
    BY <1>1, Zenon DEF Idle, run, check_quit, swap_enter, runnables_done, handle_io_source,
                timer_enter, timer_leave, Tick, quit, loopVars, sync, SwapMutex
  <2> QED
    BY <1>1, <2>1, <2>2, IdleMovesNothing, SMTT(30) DEF queues, history
<1>2. CASE swap_leave
  <2>1. /\ lp' = "run" /\ funcs' = vec[cur] /\ vec' = [vec EXCEPT ![cur] = <<>>]
        /\ owner' = [owner EXCEPT ![SwapMutex(cur)] = Nobody]
        /\ UNCHANGED <<cur, timer_, up, now, asked, ran, pushedTo, ranFrom>>
    BY <1>2 DEF swap_leave, Goto, history
  <2>2. raced' \in BOOLEAN
    BY <1>2, Zenon DEF swap_leave
  <2>3. vec' \in [Vectors -> Seq(Funcs)] /\ funcs' \in Seq(Funcs)
    BY <2>1
  <2>4. owner' \in [Mutexes -> Users \cup {Nobody, LoopThread}]
    BY <2>1, Zenon
  <2> QED
    BY <2>1, <2>2, <2>3, <2>4, Zenon DEF Labels
<1>3. CASE handle_runnable
  <2>1. PICK f \in Funcs : f = Head(funcs)
    BY <1>3, SMTT(30) DEF handle_runnable
  <2>2. Call(f) /\ UNCHANGED <<vec, owner, up, raced, now, pushedTo>>
    BY <1>3, <2>1 DEF handle_runnable, sync
  <2>3. lp' \in Labels /\ cur' \in Vectors /\ ran' \in [Funcs -> Nat]
    BY <2>2, Calls, Zenon DEF Labels
  <2>4. timer_' \subseteq Nat \X Funcs /\ IsFiniteSet(timer_')
    <3>1. timer_' \in {timer_, timer_ \cup {<<now, f>>}}
      BY <1>3, <2>1 DEF handle_runnable
    <3>2. /\ timer_ \cup {<<now, f>>} \subseteq Nat \X Funcs
          /\ IsFiniteSet(timer_ \cup {<<now, f>>})
      BY TimerAdded, Zenon
    <3> HIDE DEF LoopTypeOK
    <3>3. CASE timer_' = timer_ \cup {<<now, f>>}
      BY <3>2, <3>3
    <3>4. CASE timer_' = timer_
      BY <3>4 DEF LoopTypeOK
    <3> QED
      BY <3>1, <3>3, <3>4
  <2>5. funcs' \in Seq(Funcs) /\ ranFrom' \in [Vectors -> Seq(Funcs)]
    BY <1>3, <2>1 DEF handle_runnable
  <2>6. asked' \in [Funcs -> Nat]
    BY <1>3, <2>1, SMTT(30) DEF handle_runnable
  <2> QED
    BY <2>2, <2>3, <2>4, <2>5, <2>6, Zenon
<1>4. CASE handle_timer
  <2>1. PICK e \in timer_ :
          /\ Call(e[2]) /\ timer_' \in {timer_, timer_ \ {e}}
          /\ owner' \in {owner, [owner EXCEPT !["time_mut_"] = Nobody]}
    BY <1>4 DEF handle_timer, Top
  <2>2. UNCHANGED <<vec, funcs, up, raced, now, asked, pushedTo, ranFrom>>
    BY <1>4 DEF handle_timer
  <2>3. lp' \in Labels /\ cur' \in Vectors /\ ran' \in [Funcs -> Nat]
    BY <2>1, Calls, Zenon DEF Labels
  <2>4. timer_' \subseteq Nat \X Funcs /\ IsFiniteSet(timer_')
    BY <2>1, FS_Subset
  <2> QED
    BY <2>1, <2>2, <2>3, <2>4, Zenon
<1>5. ASSUME NEW u \in Users, push_leave(u) PROVE LoopTypeOK'
  <2>1. PICK v \in Vectors, f \in Funcs : up[u] = <<v, f>>
    BY <1>5, SMTT(30) DEF push_leave
  <2>2. /\ UNCHANGED <<lp, cur, timer_, funcs, now, asked, ran, pushedTo, ranFrom>>
        /\ up' = [up EXCEPT ![u] = <<>>] /\ raced' \in BOOLEAN
        /\ owner' = [owner EXCEPT ![PushMutex(v)] = Nobody]
        /\ vec' \in {vec, [vec EXCEPT ![v] = Append(@, f)]}
    BY <1>5, <2>1, SMTT(30) DEF push_leave, control, history, Swapping
  <2>3. vec' \in [Vectors -> Seq(Funcs)]
    <3>1. Append(vec[v], f) \in Seq(Funcs)
      OBVIOUS
    <3> QED
      BY <2>2, <3>1, Zenon
  <2>4. up' \in [Users -> {<<>>} \cup (Vectors \X Funcs)]
    BY <2>2
  <2> QED
    BY <2>2, <2>3, <2>4, Zenon
<1>6. ASSUME NEW u \in Users, NEW v \in Vectors, NEW f \in Funcs, push_enter(u, v, f)
      PROVE  LoopTypeOK'
  BY <1>6 DEF push_enter, control, queues, PushMutex, Mutexes
<1>7. ASSUME NEW u \in Users, NEW f \in Funcs, NEW at \in 0 .. MaxTime, runAt(u, at, f)
      PROVE  LoopTypeOK'
  <2>1. timer_' \subseteq Nat \X Funcs /\ IsFiniteSet(timer_')
    <3>1. at \in Nat
      BY LoopAssumption
    <3>2. /\ timer_ \cup {<<at, f>>} \subseteq Nat \X Funcs
          /\ IsFiniteSet(timer_ \cup {<<at, f>>})
      BY <3>1, TimerAdded, Zenon
    <3>3. timer_' = timer_ \cup {<<at, f>>}
      BY <1>7 DEF runAt
    <3> HIDE DEF LoopTypeOK
    <3> QED
      BY <3>2, <3>3
  <2>2. asked' \in [Funcs -> Nat]
    BY <1>7 DEF runAt
  <2> QED
    BY <1>7, <2>1, <2>2 DEF runAt, control, sync
<1> QED
  BY <1>1, <1>2, <1>3, <1>4, <1>5, <1>6, <1>7, Steps, Zenon

LEMMA MutexesDiffer ==
  ASSUME NEW v \in Vectors, NEW w \in Vectors
  PROVE  /\ PushMutex(v) \in Mutexes /\ SwapMutex(v) \in Mutexes
         /\ PushMutex(v) # "time_mut_" /\ SwapMutex(v) # "time_mut_"
         /\ PushMutex(v) = PushMutex(w) => v = w
BY DEF Vectors, Mutexes, PushMutex, SwapMutex

LEMMA ExcludedStep == LoopTypeOK /\ Excluded /\ [LoopNext]_loopVars => Excluded'
<1> SUFFICES ASSUME LoopTypeOK, Excluded, [LoopNext]_loopVars PROVE Excluded'
  OBVIOUS
<1> USE DEF LoopTypeOK
<1>a. ASSUME NEW u \in Users, up[u] # <<>>
      PROVE  /\ up[u][1] \in Vectors /\ u # Nobody /\ u # LoopThread
             /\ owner[PushMutex(up[u][1])] = u
  BY <1>a, LoopAssumption DEF Excluded
<1>b. Nobody # LoopThread
  BY DEF Nobody, LoopThread
<1>1. CASE Idle \/ UNCHANGED loopVars
  <2>1. CASE swap_enter
    BY <2>1, <1>a, MutexesDiffer DEF swap_enter, Goto, Excluded
  <2>2. CASE timer_enter \/ timer_leave
    BY <2>2, <1>a, MutexesDiffer, SMTT(30) DEF timer_enter, timer_leave, Goto, Excluded
  <2>3. CASE run \/ check_quit \/ runnables_done \/ handle_io_source
    BY <2>3 DEF run, check_quit, runnables_done, handle_io_source, Goto, sync, Excluded
  <2>4. CASE UNCHANGED <<lp, cur, owner, up>>
    BY <2>4 DEF Excluded
  <2> QED
    BY <1>1, <2>1, <2>2, <2>3, <2>4
       DEF Idle, Tick, quit, loopVars, control, sync
<1>2. CASE swap_leave
  BY <1>2, <1>a, MutexesDiffer DEF swap_leave, Goto, Excluded
<1>3. CASE handle_runnable
  <2>1. lp' # "swap"
    <3>1. PICK f \in Funcs : f = Head(funcs)
      BY <1>3, FirstIsCallback, Zenon
    <3> QED
      BY <1>3, <3>1, Calls, Zenon DEF handle_runnable
  <2> QED
    BY <1>3, <2>1 DEF handle_runnable, sync, Excluded
<1>4. CASE handle_timer
  <2>1. lp' # "swap"
    BY <1>4, Calls, Zenon DEF handle_timer, Top
  <2>2. owner' \in {owner, [owner EXCEPT !["time_mut_"] = Nobody]} /\ up' = up
    BY <1>4 DEF handle_timer
  <2> QED
    BY <1>a, <2>1, <2>2, MutexesDiffer DEF Excluded
<1>5. ASSUME NEW u \in Users, push_leave(u) PROVE Excluded'
  <2>1. /\ up[u] # <<>> /\ up' = [up EXCEPT ![u] = <<>>] /\ lp' = lp /\ cur' = cur
        /\ owner' = [owner EXCEPT ![PushMutex(up[u][1])] = Nobody]
    BY <1>5 DEF push_leave, control
  <2>2. ASSUME NEW x \in Users, up'[x] # <<>> PROVE owner'[PushMutex(up'[x][1])] = x
    BY <1>a, <2>1, <2>2, MutexesDiffer
  <2>3. lp = "swap" => owner'[SwapMutex(cur)] = LoopThread
    BY <1>a, <2>1, MutexesDiffer DEF Excluded
  <2> QED
    BY <2>1, <2>2, <2>3 DEF Excluded
<1>6. ASSUME NEW u \in Users, NEW v \in Vectors, NEW f \in Funcs, push_enter(u, v, f)
      PROVE  Excluded'
  <2>1. /\ owner[PushMutex(v)] = Nobody /\ up' = [up EXCEPT ![u] = <<v, f>>]
        /\ owner' = [owner EXCEPT ![PushMutex(v)] = u] /\ lp' = lp /\ cur' = cur
    BY <1>6 DEF push_enter, control
  <2>2. ASSUME NEW x \in Users, up'[x] # <<>> PROVE owner'[PushMutex(up'[x][1])] = x
    <3>1. CASE x = u
      BY <2>1, <3>1, MutexesDiffer
    <3>2. CASE x # u
      BY <1>a, <2>1, <2>2, <3>2, MutexesDiffer
    <3> QED
      BY <3>1, <3>2
  <2>3. lp = "swap" => owner'[SwapMutex(cur)] = LoopThread
    BY <1>b, <2>1, MutexesDiffer DEF Excluded
  <2> QED
    BY <2>1, <2>2, <2>3 DEF Excluded
<1>7. ASSUME NEW u \in Users, NEW f \in Funcs, NEW at \in 0 .. MaxTime, runAt(u, at, f)
      PROVE  Excluded'
  BY <1>7 DEF runAt, control, sync, Excluded
<1> QED
  BY <1>1, <1>2, <1>3, <1>4, <1>5, <1>6, <1>7, Steps

LEMMA CallsAllStep == LoopTypeOK /\ CallsAll /\ [LoopNext]_loopVars => CallsAll'
<1> SUFFICES ASSUME LoopTypeOK, CallsAll, [LoopNext]_loopVars PROVE CallsAll'
  OBVIOUS
<1>1. CASE Idle \/ UNCHANGED loopVars
  <2>1. funcs' = funcs /\ (lp' = lp \/ funcs = <<>>)
    BY <1>1 DEF Idle, run, check_quit, swap_enter, runnables_done, handle_io_source,
                timer_enter, timer_leave, Tick, quit, queues, control, loopVars, CallsAll
  <2> QED
    BY <2>1 DEF CallsAll
<1>2. CASE swap_leave
  BY <1>2 DEF swap_leave, Goto, CallsAll
<1>3. CASE handle_runnable
  <2>1. PICK f \in Funcs : f = Head(funcs)
    BY <1>3, FirstIsCallback
  <2>2. lp' \in {"run", "threw", "deadlocked"} /\ (lp' = "threw" <=> Effect[f] = "throw")
    BY <1>3, <2>1, Calls DEF handle_runnable
  <2>3. Effect[f] = "throw" => funcs' = <<>>
    BY <1>3, <2>1 DEF handle_runnable
  <2> QED
    BY <2>2, <2>3 DEF CallsAll
<1>4. CASE handle_timer
  BY <1>4 DEF handle_timer, CallsAll
<1>5. ASSUME NEW u \in Users, push_leave(u) PROVE CallsAll'
  BY <1>5 DEF push_leave, control, CallsAll
<1>6. ASSUME NEW u \in Users, NEW v \in Vectors, NEW f \in Funcs, push_enter(u, v, f)
      PROVE  CallsAll'
  BY <1>6 DEF push_enter, control, queues, CallsAll
<1>7. ASSUME NEW u \in Users, NEW f \in Funcs, NEW at \in 0 .. MaxTime, runAt(u, at, f)
      PROVE  CallsAll'
  BY <1>7 DEF runAt, control, CallsAll
<1> QED
  BY <1>1, <1>2, <1>3, <1>4, <1>5, <1>6, <1>7, Steps

LEMMA OrderStep ==
  LoopTypeOK /\ Excluded /\ CallsAll /\ OrderInv /\ [LoopNext]_loopVars => OrderInv'
<1> SUFFICES ASSUME LoopTypeOK, Excluded, CallsAll, OrderInv, [LoopNext]_loopVars
             PROVE  OrderInv'
  OBVIOUS
<1>a. /\ vec \in [Vectors -> Seq(Funcs)] /\ funcs \in Seq(Funcs) /\ cur \in Vectors
      /\ pushedTo \in [Vectors -> Seq(Funcs)] /\ ranFrom \in [Vectors -> Seq(Funcs)]
      /\ up \in [Users -> {<<>>} \cup (Vectors \X Funcs)]
  BY DEF LoopTypeOK
<1>b. \A v \in Vectors : Swapped(v) \in Seq(Funcs)
  BY <1>a DEF Swapped
<1>c. ASSUME NEW v \in Vectors
      PROVE  /\ InOrder(pushedTo[v], ranFrom[v], Swapped(v), vec[v])
             /\ \A u \in Users : up[u] # <<>> /\ up[u][1] = v =>
                  InOrder(pushedTo[v], ranFrom[v], Swapped(v), Append(vec[v], up[u][2]))
  BY DEF OrderInv
<1>d. CASE /\ UNCHANGED <<vec, up, pushedTo, ranFrom>>
           /\ \A v \in Vectors : Swapped(v)' = Swapped(v)
  BY <1>d DEF OrderInv
<1>e. CASE UNCHANGED <<vec, up, pushedTo, ranFrom, cur, funcs>>
  BY <1>d, <1>e DEF Swapped
<1>1. CASE Idle \/ UNCHANGED loopVars
  <2>1. /\ UNCHANGED <<vec, up, pushedTo, ranFrom, funcs>>
        /\ cur' = cur \/ funcs = <<>>
    BY <1>1, IdleMovesNothing DEF queues, history
  <2> QED
    BY <1>d, <2>1 DEF Swapped
<1>2. CASE swap_leave
  <2>1. /\ funcs' = vec[cur] /\ vec' = [vec EXCEPT ![cur] = <<>>] /\ funcs = <<>>
        /\ UNCHANGED <<cur, up, pushedTo, ranFrom>>
    BY <1>2 DEF swap_leave, Goto, history, CallsAll
  <2> SUFFICES ASSUME NEW v \in Vectors
               PROVE  /\ InOrder(pushedTo[v], ranFrom[v], Swapped(v)', vec'[v])
                      /\ \A u \in Users : up[u] # <<>> /\ up[u][1] = v =>
                           InOrder(pushedTo[v], ranFrom[v], Swapped(v)',
                                   Append(vec'[v], up[u][2]))
    BY <2>1 DEF OrderInv
  <2>2. CASE v = cur
    <3>1. Swapped(v) = <<>> /\ Swapped(v)' = vec[v] /\ vec'[v] = <<>>
      BY <1>a, <2>1, <2>2 DEF Swapped
    <3>2. \A u \in Users : up[u] # <<>> => up[u][2] \in Funcs
      BY <1>a
    <3>3. InOrder(pushedTo[v], ranFrom[v], vec[v], <<>>)
      BY <1>a, <1>c, <3>1, SwapKeepsOrder
    <3>4. ASSUME NEW u \in Users, up[u] # <<>>, up[u][1] = v
          PROVE  InOrder(pushedTo[v], ranFrom[v], vec[v], Append(<<>>, up[u][2]))
      BY <1>a, <1>c, <3>1, <3>2, <3>4, SwapPushKeepsOrder
    <3> QED
      BY <3>1, <3>3, <3>4
  <2>3. CASE v # cur
    <3>1. Swapped(v)' = Swapped(v) /\ vec'[v] = vec[v]
      BY <1>a, <2>1, <2>3 DEF Swapped
    <3> QED
      BY <1>c, <3>1
  <2> QED
    BY <2>2, <2>3
<1>3. CASE handle_runnable
  <2>1. /\ funcs # <<>> /\ funcs' \in {Tail(funcs), <<>>} /\ cur' = cur
        /\ ranFrom' = [ranFrom EXCEPT ![cur] = Append(@, Head(funcs))]
        /\ UNCHANGED <<vec, up, pushedTo>>
    BY <1>3 DEF handle_runnable, Call, sync
  <2> SUFFICES ASSUME NEW v \in Vectors
               PROVE  /\ InOrder(pushedTo[v], ranFrom'[v], Swapped(v)', vec[v])
                      /\ \A u \in Users : up[u] # <<>> /\ up[u][1] = v =>
                           InOrder(pushedTo[v], ranFrom'[v], Swapped(v)',
                                   Append(vec[v], up[u][2]))
    BY <2>1 DEF OrderInv
  <2>2. CASE v = cur
    <3>1. /\ Swapped(v) = funcs /\ Swapped(v)' \in {Tail(funcs), <<>>}
          /\ ranFrom'[v] = Append(ranFrom[v], Head(funcs))
      BY <1>a, <2>1, <2>2 DEF Swapped
    <3>2. ASSUME NEW w \in Seq(Funcs), InOrder(pushedTo[v], ranFrom[v], Swapped(v), w)
          PROVE  InOrder(pushedTo[v], ranFrom'[v], Swapped(v)', w)
      <4>1. /\ pushedTo[v] \in Seq(Funcs) /\ ranFrom[v] \in Seq(Funcs) /\ funcs \in Seq(Funcs)
            /\ funcs # <<>> /\ InOrder(pushedTo[v], ranFrom[v], funcs, w)
        BY <1>a, <2>1, <3>1, <3>2
      <4>2. /\ InOrder(pushedTo[v], Append(ranFrom[v], Head(funcs)), Tail(funcs), w)
            /\ InOrder(pushedTo[v], Append(ranFrom[v], Head(funcs)), <<>>, w)
        BY <3>2, <4>1, CallKeepsOrder
      <4> QED
        BY <3>1, <4>2, Zenon
    <3>3. \A u \in Users : up[u] # <<>> => Append(vec[v], up[u][2]) \in Seq(Funcs)
      BY <1>a
    <3> QED
      BY <1>a, <1>c, <3>2, <3>3, Zenon
  <2>3. CASE v # cur
    <3>1. Swapped(v)' = Swapped(v) /\ ranFrom'[v] = ranFrom[v]
      BY <1>a, <2>1, <2>3 DEF Swapped
    <3> QED
      BY <1>c, <3>1
  <2> QED
    BY <2>2, <2>3
<1>4. CASE handle_timer
  BY <1>4, <1>e DEF handle_timer, Call
<1>5. ASSUME NEW u \in Users, push_leave(u) PROVE OrderInv'
  <2>1. PICK v \in Vectors, f \in Funcs : up[u] = <<v, f>>
    BY <1>5, BeingPushed DEF push_leave
  <2>2. /\ vec' \in {vec, [vec EXCEPT ![v] = Append(@, f)]} /\ up[u] # <<>>
        /\ up' = [up EXCEPT ![u] = <<>>] /\ UNCHANGED <<pushedTo, ranFrom, cur, funcs>>
    <3>1. up[u][1] = v /\ up[u][2] = f
      BY <2>1
    <3>2. vec' = vec \/ vec' = [vec EXCEPT ![v] = Append(@, f)]
      BY <1>5, <3>1 DEF push_leave
    <3> QED
      BY <1>5, <3>2 DEF push_leave, control, history
  <2>3. ASSUME NEW x \in Users, up'[x] # <<>>
        PROVE  up'[x] = up[x] /\ up[x] # <<>> /\ up[x][1] # v
    <3>1. x # u /\ up'[x] = up[x]
      BY <1>a, <2>2, <2>3
    <3>2. owner[PushMutex(up[x][1])] = x /\ owner[PushMutex(v)] = u
      BY <2>1, <2>2, <2>3, <3>1 DEF Excluded
    <3> QED
      BY <2>3, <3>1, <3>2
  <2>4. ASSUME NEW y \in Vectors
        PROVE  /\ Swapped(y)' = Swapped(y)
               /\ vec'[y] = vec[y] \/ (y = v /\ vec'[y] = Append(vec[y], f))
    BY <1>a, <2>2, SMTT(30) DEF Swapped
  <2>5. InOrder(pushedTo[v], ranFrom[v], Swapped(v), Append(vec[v], f))
    BY <1>c, <2>1, <2>2
  <2>6. ASSUME NEW y \in Vectors
        PROVE  /\ InOrder(pushedTo[y], ranFrom[y], Swapped(y)', vec'[y])
               /\ \A x \in Users : up'[x] # <<>> /\ up'[x][1] = y =>
                    InOrder(pushedTo[y], ranFrom[y], Swapped(y)', Append(vec'[y], up'[x][2]))
    <3>1. InOrder(pushedTo[y], ranFrom[y], Swapped(y)', vec'[y])
      BY <1>c, <2>4, <2>5, Zenon
    <3>2. ASSUME NEW x \in Users, up'[x] # <<>>, up'[x][1] = y
          PROVE  InOrder(pushedTo[y], ranFrom[y], Swapped(y)', Append(vec'[y], up'[x][2]))
      <4>1. up'[x] = up[x] /\ up[x] # <<>> /\ up[x][1] = y /\ y # v
        BY <2>3, <3>2
      <4>2. vec'[y] = vec[y] /\ Swapped(y)' = Swapped(y)
        BY <2>4, <4>1
      <4> QED
        BY <1>c, <4>1, <4>2
    <3> QED
      BY <3>1, <3>2
  <2> QED
    BY <2>2, <2>6 DEF OrderInv
<1>6. ASSUME NEW u \in Users, NEW v \in Vectors, NEW f \in Funcs, push_enter(u, v, f)
      PROVE  OrderInv'
  <2>1. /\ owner[PushMutex(v)] = Nobody /\ up' = [up EXCEPT ![u] = <<v, f>>]
        /\ pushedTo' = [pushedTo EXCEPT ![v] = Append(@, f)]
        /\ UNCHANGED <<vec, ranFrom, cur, funcs>>
    BY <1>6 DEF push_enter, control, queues
  <2>2. ASSUME NEW y \in Vectors PROVE Swapped(y)' = Swapped(y)
    BY <2>1 DEF Swapped
  <2>3. ASSUME NEW x \in Users, x # u, up'[x] # <<>>
        PROVE  up'[x] = up[x] /\ up[x] # <<>> /\ up[x][1] # v
    BY <1>a, <2>1, <2>3, LoopAssumption DEF Excluded
  <2>4. up'[u] = <<v, f>>
    BY <1>a, <2>1
  <2>5. ASSUME NEW y \in Vectors
        PROVE  /\ InOrder(pushedTo'[y], ranFrom[y], Swapped(y)', vec[y])
               /\ \A x \in Users : up'[x] # <<>> /\ up'[x][1] = y =>
                    InOrder(pushedTo'[y], ranFrom[y], Swapped(y)', Append(vec[y], up'[x][2]))
    <3>1. CASE y = v
      <4>1. pushedTo'[y] = Append(pushedTo[y], f)
        BY <1>a, <2>1, <3>1
      <4>2. /\ InOrder(Append(pushedTo[y], f), ranFrom[y], Swapped(y), vec[y])
            /\ InOrder(Append(pushedTo[y], f), ranFrom[y], Swapped(y), Append(vec[y], f))
        BY <1>a, <1>b, <1>c, PushKeepsOrder, SMTT(30)
      <4>3. InOrder(pushedTo'[y], ranFrom[y], Swapped(y)', vec[y])
        BY <2>2, <4>1, <4>2
      <4>4. ASSUME NEW x \in Users, up'[x] # <<>>, up'[x][1] = y
            PROVE  InOrder(pushedTo'[y], ranFrom[y], Swapped(y)', Append(vec[y], up'[x][2]))
        <5>1. x = u
          BY <2>3, <3>1, <4>4
        <5>2. up'[x][2] = f
          BY <2>4, <5>1
        <5> QED
          BY <2>2, <4>1, <4>2, <5>2
      <4> QED
        BY <4>3, <4>4
    <3>2. CASE y # v
      <4>1. pushedTo'[y] = pushedTo[y]
        BY <1>a, <2>1, <3>2
      <4>2. InOrder(pushedTo'[y], ranFrom[y], Swapped(y)', vec[y])
        BY <1>c, <2>2, <4>1
      <4>3. ASSUME NEW x \in Users, up'[x] # <<>>, up'[x][1] = y
            PROVE  InOrder(pushedTo'[y], ranFrom[y], Swapped(y)', Append(vec[y], up'[x][2]))
        <5>1. x # u
          BY <2>4, <3>2, <4>3
        <5>2. up'[x] = up[x] /\ up[x] # <<>>
          BY <2>3, <4>3, <5>1
        <5> QED
          BY <1>c, <2>2, <4>1, <4>3, <5>2
      <4> QED
        BY <4>2, <4>3
    <3> QED
      BY <3>1, <3>2
  <2> QED
    BY <2>1, <2>5 DEF OrderInv
<1>7. ASSUME NEW u \in Users, NEW f \in Funcs, NEW at \in 0 .. MaxTime, runAt(u, at, f)
      PROVE  OrderInv'
  BY <1>7, <1>e DEF runAt, control, sync
<1> QED
  BY <1>1, <1>2, <1>3, <1>4, <1>5, <1>6, <1>7, Steps

-----------------------------------------------------------------------------
(* The numbers.                                                            *)

LEMMA Numbers ==
  ASSUME LoopTypeOK, Excluded, NEW f \in Funcs
  PROVE  /\ IsFiniteSet(Pushers(f)) /\ IsFiniteSet(Timers(f))
         /\ InVectors(f) \in Nat /\ Occurrences(f, funcs) \in Nat
         /\ Cardinality(Pushers(f)) \in Nat /\ Cardinality(Timers(f)) \in Nat
         /\ Vectored(f) \in Nat
         /\ Pending(f) = Vectored(f) + Cardinality(Timers(f))
<1>1. Pushers(f) \subseteq {owner["idle_mut_"], owner["run_mut_"]}
  BY Zenon DEF Pushers, Excluded, PushMutex, LoopTypeOK, Vectors
<1>2. IsFiniteSet({owner["idle_mut_"], owner["run_mut_"]})
  <2>1. IsFiniteSet({owner["idle_mut_"]})
    BY FS_Singleton, Zenon
  <2>2. IsFiniteSet({owner["idle_mut_"]} \cup {owner["run_mut_"]})
    BY <2>1, FS_AddElement
  <2>3. {owner["idle_mut_"]} \cup {owner["run_mut_"]} = {owner["idle_mut_"], owner["run_mut_"]}
    OBVIOUS
  <2> QED
    BY <2>2, <2>3
<1>3. IsFiniteSet(Pushers(f)) /\ Cardinality(Pushers(f)) \in Nat
  BY <1>1, <1>2, FS_Subset, FS_CardinalityType
<1>4. Timers(f) \subseteq timer_ /\ IsFiniteSet(timer_)
  BY DEF Timers, TimersOf, LoopTypeOK
<1>5. IsFiniteSet(Timers(f)) /\ Cardinality(Timers(f)) \in Nat
  BY <1>4, FS_Subset, FS_CardinalityType
<1>6. /\ Occurrences(f, vec["idle_"]) \in Nat /\ Occurrences(f, vec["runable_"]) \in Nat
      /\ Occurrences(f, funcs) \in Nat
  BY OccType, Zenon DEF LoopTypeOK, Vectors
<1>7. Pending(f) = Occurrences(f, vec["idle_"]) + Occurrences(f, vec["runable_"])
                     + Occurrences(f, funcs) + Cardinality(Timers(f)) + Cardinality(Pushers(f))
  BY DEF Pending, Timers, TimersOf, Pushers
<1> QED
  BY <1>3, <1>5, <1>6, <1>7 DEF InVectors, Vectored

LEMMA TimerCounts ==
  ASSUME NEW T, IsFiniteSet(T), NEW x, x \notin T, NEW f
  PROVE  Cardinality(TimersOf(T \cup {x}, f))
           = Cardinality(TimersOf(T, f)) + (IF x[2] = f THEN 1 ELSE 0)
<1> DEFINE old == {e \in T : e[2] = f}
           new == {e \in T \cup {x} : e[2] = f}
<1>1. IsFiniteSet(old) /\ Cardinality(old) \in Nat /\ x \notin old
  BY FS_Subset, FS_CardinalityType
<1>2. CASE x[2] = f
  <2>1. new = old \cup {x}
    BY <1>2
  <2> HIDE DEF old, new
  <2>2. Cardinality(new) = Cardinality(old) + 1
    BY <1>1, <2>1, FS_AddElement, Zenon
  <2> QED
    BY <1>2, <2>2 DEF old, new, TimersOf
<1>3. CASE x[2] # f
  <2>1. new = old
    BY <1>3
  <2> HIDE DEF old, new
  <2>2. Cardinality(new) = Cardinality(old) + 0
    BY <1>1, <2>1
  <2> QED
    BY <1>3, <2>2 DEF old, new, TimersOf
<1> QED
  BY <1>2, <1>3

LEMMA OrderlyBefore ==
  ASSUME LoopTypeOK, [LoopNext]_loopVars, Orderly'
  PROVE  Orderly
<1>1. raced => raced'
  BY ZenonT(30) DEF LoopNext, LoopStep, UserStep, run, check_quit, swap_enter, swap_leave,
         handle_runnable, runnables_done, timer_enter, handle_timer, timer_leave,
         handle_io_source, Tick, pushIdle, pushRunable, push_enter, push_leave, runAt, quit,
         loopVars, sync
<1>2. lp \in {"threw", "deadlocked"} => lp' = lp
  BY ZenonT(30) DEF LoopNext, LoopStep, UserStep, run, check_quit, swap_enter, swap_leave,
         handle_runnable, runnables_done, timer_enter, handle_timer, timer_leave,
         handle_io_source, Tick, pushIdle, pushRunable, push_enter, push_leave, runAt, quit,
         loopVars, control
<1> QED
  BY <1>1, <1>2 DEF Orderly, LoopTypeOK

\* EverySubmissionCounts and RearmedOnce, for one callback.
Accounted(f) == /\ asked[f] = ran[f] + Vectored(f) + Cardinality(Timers(f))
                /\ asked[f] > 1 => Vectored(f) = 0

LEMMA SwapAccounted ==
  ASSUME LoopTypeOK, Excluded, CallsAll, swap_leave, NEW f \in Funcs, Accounted(f)
  PROVE  Accounted(f)'
<1>1. /\ funcs' = vec[cur] /\ vec' = [vec EXCEPT ![cur] = <<>>] /\ funcs = <<>>
      /\ UNCHANGED <<timer_, up, asked, ran>>
  BY DEF swap_leave, history, CallsAll
<1>2. Pushers(f)' = Pushers(f) /\ Timers(f)' = Timers(f)
  BY <1>1 DEF Pushers, Timers
<1>3. Occurrences(f, <<>>) = 0
  BY OccEmpty
<1>4. Occurrences(f, vec["idle_"]) \in Nat /\ Occurrences(f, vec["runable_"]) \in Nat
  BY OccType, Zenon DEF LoopTypeOK, Vectors
<1>5. CASE cur = "idle_"
  <2>1. funcs' = vec["idle_"] /\ vec'["idle_"] = <<>> /\ vec'["runable_"] = vec["runable_"]
    BY <1>1, <1>5 DEF LoopTypeOK, Vectors
  <2>2. InVectors(f)' + Occurrences(f, funcs') = InVectors(f) + Occurrences(f, funcs)
    BY <1>1, <1>3, <1>4, <2>1 DEF InVectors
  <2> QED
    BY <1>1, <1>2, <2>2 DEF Accounted, Vectored
<1>6. CASE cur = "runable_"
  <2>1. funcs' = vec["runable_"] /\ vec'["runable_"] = <<>> /\ vec'["idle_"] = vec["idle_"]
    BY <1>1, <1>6 DEF LoopTypeOK, Vectors
  <2>2. InVectors(f)' + Occurrences(f, funcs') = InVectors(f) + Occurrences(f, funcs)
    BY <1>1, <1>3, <1>4, <2>1 DEF InVectors
  <2> QED
    BY <1>1, <1>2, <2>2 DEF Accounted, Vectored
<1> QED
  BY <1>5, <1>6 DEF LoopTypeOK, Vectors

LEMMA CallAccounted ==
  ASSUME LoopTypeOK, Excluded, handle_runnable, lp' = "run",
         \A g \in Funcs : Accounted(g), NEW f \in Funcs
  PROVE  Accounted(f)'
<1>1. PICK g \in Funcs : g = Head(funcs)
  BY FirstIsCallback
<1>2. /\ funcs # <<>> /\ funcs' = Tail(funcs) /\ ran' = [ran EXCEPT ![g] = @ + 1]
      /\ timer_' = IF Effect[g] = "runAt" THEN timer_ \cup {<<now, g>>} ELSE timer_
      /\ asked' = IF Effect[g] = "runAt" THEN [asked EXCEPT ![g] = @ + 1] ELSE asked
      /\ UNCHANGED <<vec, up>>
  <2>1. Effect[g] # "throw"
    BY <1>1, Calls DEF handle_runnable
  <2> QED
    BY <1>1, <2>1 DEF handle_runnable, sync, Call
<1>3. InVectors(f)' = InVectors(f) /\ Pushers(f)' = Pushers(f)
  BY <1>2 DEF InVectors, Pushers
<1>4. /\ Occurrences(f, funcs) = Occurrences(f, funcs') + (IF g = f THEN 1 ELSE 0)
      /\ Occurrences(f, funcs') \in Nat
  <2>1. Occurrences(f, funcs) = Occurrences(f, Tail(funcs)) + (IF Head(funcs) = f THEN 1 ELSE 0)
    BY <1>2, OccTail, SMTT(30) DEF LoopTypeOK
  <2>2. Occurrences(f, Tail(funcs)) \in Nat
    <3>1. Tail(funcs) \in Seq(Funcs)
      BY <1>2 DEF LoopTypeOK
    <3> QED
      BY <3>1, OccType, Zenon
  <2> QED
    BY <1>1, <1>2, <2>1, <2>2
<1>5. /\ InVectors(f) \in Nat /\ Cardinality(Pushers(f)) \in Nat
      /\ Cardinality(Timers(f)) \in Nat /\ ran[f] \in Nat /\ asked[f] \in Nat
  BY Numbers, Zenon DEF LoopTypeOK
<1>6. Vectored(f) = Vectored(f)' + (IF g = f THEN 1 ELSE 0) /\ Vectored(f)' \in Nat
  <2>1. /\ Vectored(f)' = InVectors(f) + Occurrences(f, funcs') + Cardinality(Pushers(f))
        /\ Vectored(f) = InVectors(f) + Occurrences(f, funcs) + Cardinality(Pushers(f))
    BY <1>3 DEF Vectored
  <2>2. PICK i \in Nat, o \in Nat, p \in Nat :
          i = InVectors(f) /\ o = Occurrences(f, funcs') /\ p = Cardinality(Pushers(f))
    BY <1>4, <1>5
  <2>3. PICK d \in Nat : d = IF g = f THEN 1 ELSE 0
    OBVIOUS
  <2>4. Vectored(f)' = i + o + p /\ Vectored(f) = i + (o + d) + p
    BY <1>4, <2>1, <2>2, <2>3
  <2>5. i + (o + d) + p = i + o + p + d /\ i + o + p \in Nat
    OBVIOUS
  <2> QED
    BY <2>3, <2>4, <2>5
<1>6a. /\ asked[f] = ran[f] + Vectored(f) + Cardinality(Timers(f))
       /\ asked[f] > 1 => Vectored(f) = 0
  BY DEF Accounted
<1>7. CASE g # f
  <2>1. Timers(f)' = Timers(f)
    BY <1>2, <1>7 DEF Timers, TimersOf
  <2>2. ran'[f] = ran[f] /\ asked'[f] = asked[f]
    BY <1>2, <1>7 DEF LoopTypeOK
  <2>3. Vectored(f)' = Vectored(f)
    BY <1>6, <1>7
  <2> QED
    BY <1>6a, <2>1, <2>2, <2>3 DEF Accounted
<1>8. CASE g = f
  <2>1. asked[f] = 1 /\ Vectored(f)' = 0 /\ Cardinality(Timers(f)) = 0 /\ ran[f] = 0
    <3>1. Vectored(f) = Vectored(f)' + 1
      BY <1>6, <1>8
    <3> QED
      BY <1>5, <1>6, <1>6a, <3>1
  <2>2. ran'[f] = 1
    BY <1>2, <1>8, <2>1 DEF LoopTypeOK
  <2>3. CASE Effect[f] # "runAt"
    <3>1. Timers(f)' = Timers(f) /\ asked' = asked
      BY <1>2, <1>8, <2>3 DEF Timers
    <3>2. asked'[f] = 1 /\ Cardinality(Timers(f))' = 0
      BY <2>1, <3>1
    <3>3. asked'[f] = ran'[f] + Vectored(f)' + Cardinality(Timers(f))'
      BY <2>1, <2>2, <3>2
    <3> QED
      BY <2>1, <3>3 DEF Accounted
  <2>4. CASE Effect[f] = "runAt"
    <3>1. asked'[f] = 2 /\ timer_' = timer_ \cup {<<now, f>>}
      BY <1>2, <1>8, <2>1, <2>4 DEF LoopTypeOK
    <3>2. Timers(f) = {}
      BY <2>1, Numbers, FS_EmptySet
    <3>3. <<now, f>> \notin timer_
      BY <3>2 DEF Timers, TimersOf
    <3>4. Cardinality(TimersOf(timer_ \cup {<<now, f>>}, f)) = Cardinality(Timers(f)) + 1
      <4>1. IsFiniteSet(timer_)
        BY DEF LoopTypeOK
      <4>2. PICK x : x = <<now, f>>
        BY Zenon
      <4>3. Cardinality(TimersOf(timer_ \cup {x}, f))
              = Cardinality(TimersOf(timer_, f)) + (IF x[2] = f THEN 1 ELSE 0)
        BY <3>3, <4>1, <4>2, TimerCounts
      <4>4. x[2] = f
        BY <4>2
      <4> QED
        BY <4>2, <4>3, <4>4 DEF Timers
    <3>5. Cardinality(Timers(f))' = 1
      BY <2>1, <3>1, <3>4 DEF Timers
    <3>6. asked'[f] = ran'[f] + Vectored(f)' + Cardinality(Timers(f))'
      BY <2>1, <2>2, <3>1, <3>5
    <3> QED
      BY <2>1, <3>6 DEF Accounted
  <2> QED
    BY <2>3, <2>4
<1> QED
  BY <1>7, <1>8

LEMMA TimerAccounted ==
  ASSUME LoopTypeOK, Excluded, handle_timer, lp' = "timer", NEW f \in Funcs, Accounted(f)
  PROVE  Accounted(f)'
<1>1. PICK e \in timer_ : Call(e[2]) /\ timer_' = timer_ \ {e}
  BY DEF handle_timer, Top
<1>2. UNCHANGED <<vec, funcs, up, asked>>
  BY DEF handle_timer
<1>3. Vectored(f)' = Vectored(f)
  BY <1>2 DEF Vectored, InVectors, Pushers
<1>4. Cardinality(Timers(f)) = Cardinality(Timers(f))' + (IF e[2] = f THEN 1 ELSE 0)
  <2>1. IsFiniteSet(timer_ \ {e}) /\ e \notin timer_ \ {e}
    BY FS_Subset DEF LoopTypeOK
  <2>2. (timer_ \ {e}) \cup {e} = timer_
    OBVIOUS
  <2>3. Cardinality(TimersOf((timer_ \ {e}) \cup {e}, f))
          = Cardinality(TimersOf(timer_ \ {e}, f)) + (IF e[2] = f THEN 1 ELSE 0)
    BY <2>1, TimerCounts
  <2> QED
    BY <1>1, <2>2, <2>3 DEF Timers
<1>5. ran'[f] = ran[f] + (IF e[2] = f THEN 1 ELSE 0)
  BY <1>1 DEF Call, LoopTypeOK
<1>6. /\ Vectored(f) \in Nat /\ Cardinality(Timers(f)) \in Nat /\ ran[f] \in Nat
      /\ Cardinality(Timers(f))' \in Nat
  <2>1. Timers(f)' \subseteq Timers(f)
    BY <1>1 DEF Timers, TimersOf
  <2> QED
    BY <2>1, Numbers, FS_Subset, FS_CardinalityType, Zenon DEF LoopTypeOK
<1>7. /\ asked[f] = ran[f] + Vectored(f) + Cardinality(Timers(f))
      /\ asked[f] > 1 => Vectored(f) = 0
  BY DEF Accounted
<1>8. asked[f] = ran'[f] + Vectored(f) + Cardinality(Timers(f))'
  <2>1. PICK r \in Nat, v \in Nat, t \in Nat :
          r = ran[f] /\ v = Vectored(f) /\ t = Cardinality(Timers(f))'
    BY <1>6
  <2>2. PICK d \in Nat : d = IF e[2] = f THEN 1 ELSE 0
    OBVIOUS
  <2>3. asked[f] = r + v + (t + d) /\ ran'[f] = r + d
    BY <1>4, <1>5, <1>7, <2>1, <2>2
  <2>4. r + v + (t + d) = r + d + v + t
    OBVIOUS
  <2> QED
    BY <2>1, <2>3, <2>4
<1> QED
  BY <1>2, <1>3, <1>7, <1>8 DEF Accounted

LEMMA PushLeaveAccounted ==
  ASSUME LoopTypeOK, Excluded, NEW u \in Users, push_leave(u), ~raced',
         NEW f \in Funcs, Accounted(f)
  PROVE  Accounted(f)'
<1>1. PICK v \in Vectors, g \in Funcs : up[u] = <<v, g>>
  BY BeingPushed DEF push_leave
<1>2. /\ vec' = [vec EXCEPT ![v] = Append(@, g)] /\ up' = [up EXCEPT ![u] = <<>>]
      /\ UNCHANGED <<timer_, funcs, asked, ran>>
  <2>1. ~Swapping(v)
    <3>1. raced' = (raced \/ Swapping(up[u][1]))
      BY DEF push_leave
    <3>2. ~Swapping(up[u][1])
      BY <3>1, Zenon
    <3> QED
      BY <1>1, <3>2
  <2> QED
    BY <1>1, <2>1 DEF push_leave, history
<1>3. InVectors(f)' = InVectors(f) + (IF g = f THEN 1 ELSE 0)
  <2>1. Occurrences(f, Append(vec[v], g)) = Occurrences(f, vec[v]) + (IF g = f THEN 1 ELSE 0)
    BY OccAppend, SMTT(30) DEF LoopTypeOK
  <2>2. Occurrences(f, vec["idle_"]) \in Nat /\ Occurrences(f, vec["runable_"]) \in Nat
    BY OccType, Zenon DEF LoopTypeOK, Vectors
  <2>a. PICK a \in Nat, b \in Nat, d \in Nat :
          /\ a = Occurrences(f, vec["idle_"]) /\ b = Occurrences(f, vec["runable_"])
          /\ d = IF g = f THEN 1 ELSE 0
    BY <2>2
  <2>b. InVectors(f) = a + b /\ (a + d) + b = a + b + d /\ a + (b + d) = a + b + d
    BY <2>a DEF InVectors
  <2>3. CASE v = "idle_"
    <3>1. vec'["idle_"] = Append(vec[v], g) /\ vec'["runable_"] = vec["runable_"]
      BY <1>2, <2>3 DEF LoopTypeOK, Vectors
    <3>2. InVectors(f)' = Occurrences(f, Append(vec[v], g)) + Occurrences(f, vec["runable_"])
      BY <3>1 DEF InVectors
    <3>3. InVectors(f)' = (a + d) + b
      BY <2>1, <2>3, <2>a, <3>2
    <3> QED
      BY <2>a, <2>b, <3>3
  <2>4. CASE v = "runable_"
    <3>1. vec'["runable_"] = Append(vec[v], g) /\ vec'["idle_"] = vec["idle_"]
      BY <1>2, <2>4 DEF LoopTypeOK, Vectors
    <3>2. InVectors(f)' = Occurrences(f, vec["idle_"]) + Occurrences(f, Append(vec[v], g))
      BY <3>1 DEF InVectors
    <3>3. InVectors(f)' = a + (b + d)
      BY <2>1, <2>4, <2>a, <3>2
    <3> QED
      BY <2>a, <2>b, <3>3
  <2> QED
    BY <2>3, <2>4 DEF Vectors
<1>4. Cardinality(Pushers(f)) = Cardinality(Pushers(f))' + (IF g = f THEN 1 ELSE 0)
  <2>1. Pushers(f)' = Pushers(f) \ {u} /\ (u \in Pushers(f) <=> g = f)
    BY <1>1, <1>2, SMTT(30) DEF Pushers, LoopTypeOK
  <2>2. IsFiniteSet(Pushers(f)) /\ Cardinality(Pushers(f)) \in Nat
    BY Numbers
  <2>3. CASE g = f
    <3>1. Cardinality(Pushers(f) \ {u}) = Cardinality(Pushers(f)) - 1
      BY <2>1, <2>2, <2>3, FS_RemoveElement, Zenon
    <3> QED
      BY <2>1, <2>2, <2>3, <3>1
  <2>4. CASE g # f
    <3>1. Pushers(f)' = Pushers(f)
      BY <2>1, <2>4
    <3> QED
      BY <2>2, <2>4, <3>1
  <2> QED
    BY <2>3, <2>4
<1>5. /\ InVectors(f) \in Nat /\ Occurrences(f, funcs) \in Nat
      /\ Cardinality(Pushers(f)) \in Nat
  BY Numbers
<1>6. Cardinality(Pushers(f))' \in Nat
  <2>1. Pushers(f)' \subseteq Pushers(f)
    BY <1>1, <1>2 DEF Pushers, LoopTypeOK
  <2> QED
    BY <2>1, Numbers, FS_Subset, FS_CardinalityType
<1>7. Vectored(f)' = Vectored(f)
  BY <1>2, <1>3, <1>4, <1>5, <1>6 DEF Vectored
<1> QED
  BY <1>2, <1>7 DEF Accounted, Timers

LEMMA PushEnterAccounted ==
  ASSUME LoopTypeOK, Excluded, NEW u \in Users, NEW v \in Vectors, NEW g \in Funcs,
         push_enter(u, v, g), NEW f \in Funcs, Accounted(f)
  PROVE  Accounted(f)'
<1>1. /\ up[u] = <<>> /\ asked[g] = 0 /\ up' = [up EXCEPT ![u] = <<v, g>>]
      /\ asked' = [asked EXCEPT ![g] = 1] /\ UNCHANGED <<timer_, vec, funcs, ran>>
  BY DEF push_enter, queues
<1>2. InVectors(f)' = InVectors(f) /\ Timers(f)' = Timers(f)
  BY <1>1 DEF InVectors, Timers
<1>3. u \notin Pushers(f) /\ Pushers(f)' = IF g = f THEN Pushers(f) \cup {u} ELSE Pushers(f)
  BY <1>1, SMTT(30) DEF Pushers, LoopTypeOK
<1>4. /\ InVectors(f) \in Nat /\ Occurrences(f, funcs) \in Nat
      /\ Cardinality(Pushers(f)) \in Nat /\ IsFiniteSet(Pushers(f))
      /\ Cardinality(Timers(f)) \in Nat /\ ran[f] \in Nat
  BY Numbers, Zenon DEF LoopTypeOK
<1>5. CASE g # f
  <2>1. Pushers(f)' = Pushers(f) /\ asked'[f] = asked[f]
    BY <1>1, <1>3, <1>5 DEF LoopTypeOK
  <2> QED
    BY <1>1, <1>2, <2>1 DEF Accounted, Vectored
<1>6. CASE g = f
  <2>1. Cardinality(Pushers(f) \cup {u}) = Cardinality(Pushers(f)) + 1
    BY <1>3, <1>4, FS_AddElement, Zenon
  <2>2. Cardinality(Pushers(f))' = Cardinality(Pushers(f)) + 1
    BY <1>3, <1>6, <2>1
  <2>3. asked[f] = 0 /\ asked'[f] = 1
    BY <1>1, <1>6 DEF LoopTypeOK
  <2>4. Vectored(f)' = Vectored(f) + 1
    BY <1>1, <1>2, <1>4, <2>2 DEF Vectored
  <2>5. Vectored(f) \in Nat
    BY Numbers
  <2> QED
    BY <1>1, <1>2, <1>4, <2>3, <2>4, <2>5 DEF Accounted
<1> QED
  BY <1>5, <1>6

LEMMA RunAtAccounted ==
  ASSUME LoopTypeOK, Excluded, NEW u \in Users, NEW g \in Funcs, NEW at \in 0 .. MaxTime,
         runAt(u, at, g), \A h \in Funcs : Accounted(h), NEW f \in Funcs
  PROVE  Accounted(f)'
<1>1. /\ asked[g] = 0 /\ timer_' = timer_ \cup {<<at, g>>}
      /\ asked' = [asked EXCEPT ![g] = 1] /\ UNCHANGED <<vec, funcs, up, ran>>
  BY DEF runAt, sync
<1>2. Vectored(f)' = Vectored(f)
  BY <1>1 DEF Vectored, InVectors, Pushers
<1>3. /\ Vectored(g) \in Nat /\ Cardinality(Timers(g)) \in Nat /\ IsFiniteSet(Timers(g))
      /\ Vectored(f) \in Nat /\ Cardinality(Timers(f)) \in Nat
      /\ ran[f] \in Nat /\ ran[g] \in Nat
  BY Numbers, Zenon DEF LoopTypeOK
<1>4. Cardinality(Timers(g)) = 0
  BY <1>1, <1>3 DEF Accounted
<1>5. <<at, g>> \notin timer_
  <2>1. Timers(g) = {}
    BY <1>3, <1>4, FS_EmptySet
  <2> QED
    BY <2>1 DEF Timers, TimersOf
<1>6. Cardinality(Timers(f))' = Cardinality(Timers(f)) + (IF g = f THEN 1 ELSE 0)
  <2>1. IsFiniteSet(timer_)
    BY DEF LoopTypeOK
  <2>2. PICK x : x = <<at, g>>
    BY Zenon
  <2>3. Cardinality(TimersOf(timer_ \cup {x}, f))
          = Cardinality(TimersOf(timer_, f)) + (IF x[2] = f THEN 1 ELSE 0)
    <3>1. x \notin timer_
      BY <1>5, <2>2
    <3> QED
      BY <2>1, <3>1, TimerCounts
  <2>4. x[2] = g /\ timer_' = timer_ \cup {x}
    BY <1>1, <2>2
  <2> QED
    BY <2>3, <2>4 DEF Timers
<1>7. asked'[f] = asked[f] + (IF g = f THEN 1 ELSE 0)
  BY <1>1 DEF LoopTypeOK
<1>8. asked'[f] = ran'[f] + Vectored(f)' + Cardinality(Timers(f))'
  BY <1>1, <1>2, <1>3, <1>6, <1>7 DEF Accounted
<1>9. asked'[f] > 1 => Vectored(f)' = 0
  BY <1>1, <1>2, <1>7 DEF Accounted, LoopTypeOK
<1> QED
  BY <1>8, <1>9, Zenon DEF Accounted

LEMMA AccountStep ==
  ASSUME LoopTypeOK, Excluded, CallsAll, [LoopNext]_loopVars, Orderly',
         \A g \in Funcs : Accounted(g)
  PROVE  \A g \in Funcs : Accounted(g)'
<1> TAKE f \in Funcs
<1>1. CASE Idle \/ UNCHANGED loopVars
  <2>1. UNCHANGED <<timer_, vec, funcs, up, asked, ran>>
    BY <1>1, IdleMovesNothing DEF queues, history
  <2> QED
    BY <2>1, Zenon DEF Accounted, Vectored, InVectors, Pushers, Timers
<1>2. CASE swap_leave
  BY <1>2, SwapAccounted
<1>3. CASE handle_runnable
  <2>1. lp' = "run"
    <3>1. PICK g \in Funcs : g = Head(funcs)
      BY <1>3, FirstIsCallback
    <3> QED
      BY <1>3, <3>1, Calls DEF handle_runnable, Orderly
  <2> QED
    BY <1>3, <2>1, CallAccounted
<1>4. CASE handle_timer
  <2>1. lp' = "timer"
    <3>1. PICK e \in timer_ : Call(e[2])
      BY <1>4 DEF handle_timer, Top
    <3>2. e[2] \in Funcs
      BY DEF LoopTypeOK
    <3> QED
      BY <1>4, <3>1, <3>2, Calls DEF handle_timer, Orderly
  <2> QED
    BY <1>4, <2>1, TimerAccounted
<1>5. ASSUME NEW u \in Users, push_leave(u) PROVE Accounted(f)'
  <2>1. ~raced'
    BY DEF Orderly
  <2> QED
    BY <1>5, <2>1, PushLeaveAccounted
<1>6. ASSUME NEW u \in Users, NEW v \in Vectors, NEW g \in Funcs, push_enter(u, v, g)
      PROVE  Accounted(f)'
  BY <1>6, PushEnterAccounted
<1>7. ASSUME NEW u \in Users, NEW g \in Funcs, NEW at \in 0 .. MaxTime, runAt(u, at, g)
      PROVE  Accounted(f)'
  BY <1>7, RunAtAccounted
<1> QED
  BY <1>1, <1>2, <1>3, <1>4, <1>5, <1>6, <1>7, Steps

\* Accounted, under the condition of EverySubmissionCounts, says just that.
LEMMA AccountedMeans ==
  ASSUME LoopTypeOK, Excluded
  PROVE  (RearmedOnce /\ EverySubmissionCounts)
           <=> (Orderly => \A f \in Funcs : Accounted(f))
<1>1. EverySubmissionCounts <=> (Orderly => \A f \in Funcs : asked[f] = ran[f] + Pending(f))
  BY DEF EverySubmissionCounts, Orderly
<1>2. ASSUME NEW f \in Funcs
      PROVE  ran[f] + Pending(f) = ran[f] + Vectored(f) + Cardinality(Timers(f))
  <2>1. /\ Pending(f) = Vectored(f) + Cardinality(Timers(f))
        /\ Vectored(f) \in Nat /\ Cardinality(Timers(f)) \in Nat /\ ran[f] \in Nat
    BY Numbers, SMTT(30) DEF LoopTypeOK
  <2> QED
    BY <2>1
<1> QED
  BY <1>1, <1>2 DEF RearmedOnce, Accounted

-----------------------------------------------------------------------------
LEMMA LoopInitial == LoopInit => LoopInv
<1> SUFFICES ASSUME LoopInit PROVE LoopInv
  OBVIOUS
<1>1. LoopTypeOK
  <2>1. IsFiniteSet({})
    BY FS_EmptySet
  <2>2. /\ owner \in [Mutexes -> Users \cup {Nobody, LoopThread}]
        /\ up \in [Users -> {<<>>} \cup (Vectors \X Funcs)]
    BY DEF LoopInit
  <2>3. /\ asked \in [Funcs -> Nat] /\ ran \in [Funcs -> Nat]
        /\ timer_ = {} /\ now = 0 /\ funcs = <<>> /\ raced = FALSE
        /\ lp \in Labels /\ cur \in Vectors
    BY DEF LoopInit, Labels, Vectors
  <2>4. <<>> \in Seq(Funcs)
    OBVIOUS
  <2>5. /\ vec \in [Vectors -> Seq(Funcs)]
        /\ pushedTo \in [Vectors -> Seq(Funcs)] /\ ranFrom \in [Vectors -> Seq(Funcs)]
    BY <2>4 DEF LoopInit
  <2> QED
    BY <2>1, <2>2, <2>3, <2>4, <2>5, Zenon DEF LoopTypeOK
<1>2. Excluded /\ CallsAll
  BY DEF LoopInit, Excluded, CallsAll
<1>3. OrderInv
  <2>1. InOrder(<<>>, <<>>, <<>>, <<>>)
    BY DEF InOrder, Ordered, Follow, Pushed
  <2>2. ASSUME NEW v \in Vectors
        PROVE  vec[v] = <<>> /\ pushedTo[v] = <<>> /\ ranFrom[v] = <<>> /\ Swapped(v) = <<>>
    BY DEF LoopInit, Swapped
  <2>3. \A u \in Users : up[u] = <<>>
    BY DEF LoopInit
  <2> QED
    BY <2>1, <2>2, <2>3 DEF OrderInv
<1>4. ASSUME NEW f \in Funcs PROVE Accounted(f)
  <2>1. Timers(f) = {} /\ Pushers(f) = {}
    BY DEF LoopInit, Timers, TimersOf, Pushers
  <2>2. Cardinality(Timers(f)) = 0 /\ Cardinality(Pushers(f)) = 0
    BY <2>1, FS_EmptySet
  <2>3. InVectors(f) = 0 /\ Occurrences(f, funcs) = 0
    BY OccEmpty DEF LoopInit, InVectors, Vectors
  <2> QED
    BY <2>2, <2>3 DEF LoopInit, Accounted, Vectored
<1> QED
  BY <1>1, <1>2, <1>3, <1>4, AccountedMeans DEF LoopInv

LEMMA LoopInductive == LoopInv /\ [LoopNext]_loopVars => LoopInv'
<1> SUFFICES ASSUME LoopInv, [LoopNext]_loopVars PROVE LoopInv'
  OBVIOUS
<1>1. LoopTypeOK' /\ Excluded' /\ CallsAll' /\ OrderInv'
  BY TypeStep, ExcludedStep, CallsAllStep, OrderStep DEF LoopInv
<1>2. ASSUME Orderly' PROVE \A f \in Funcs : Accounted(f)'
  <2>1. Orderly
    BY <1>2, OrderlyBefore DEF LoopInv
  <2>2. \A f \in Funcs : Accounted(f)
    BY <2>1, AccountedMeans DEF LoopInv
  <2> QED
    BY <1>2, <2>2, AccountStep DEF LoopInv
<1>3. (LoopTypeOK /\ Excluded
        => ((RearmedOnce /\ EverySubmissionCounts)
              <=> (Orderly => \A f \in Funcs : Accounted(f))))'
  BY AccountedMeans, PTL
<1>4. (RearmedOnce /\ EverySubmissionCounts)'
  BY <1>1, <1>2, <1>3
<1> QED
  BY <1>1, <1>4 DEF LoopInv

\* As long as no append overlapped with the loop's swap and the loop has not
\* ended on a callback, what was submitted was called or is still to be
\* called, each submission once: for any number of threads and callbacks.
THEOREM SubmissionsCount == LoopSpec => []EverySubmissionCounts
<1>1. LoopInv => EverySubmissionCounts
  BY DEF LoopInv
<1> QED
  BY <1>1, LoopInitial, LoopInductive, PTL DEF LoopSpec

\* Even with the overlap, Loop::run calls the callbacks of a vector in the
\* order push_runnable put them there.
THEOREM CallsInOrder == LoopSpec => []CalledInPushOrder
<1>1. LoopInv => CalledInPushOrder
  BY Zenon DEF LoopInv, OrderInv, InOrder, Ordered, Before, CalledInPushOrder
<1> QED
  BY <1>1, LoopInitial, LoopInductive, PTL DEF LoopSpec

=============================================================================
