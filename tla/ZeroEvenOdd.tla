---------------------------- MODULE ZeroEvenOdd ----------------------------
(***************************************************************************)
(* set/atomic/main1.cpp: three threads print 0 1 0 2 0 3 ... 0 n by        *)
(* spinning on one sequentially consistent atomic.  A thread that has left *)
(* its spin loop prints; the store that hands the turn on is a step of its *)
(* own.                                                                    *)
(***************************************************************************)
EXTENDS Integers, Sequences

CONSTANT n  \* the constructor's argument

ASSUME CountIsNat == n \in Nat

Threads == {"zero", "even", "odd"}

VARIABLES flag,
          i,        \* each thread's loop variable
          printed,  \* whether it has printed in this round, and must store next
          out       \* what was printed

zeoVars == <<flag, i, printed, out>>

ZeoInit == /\ flag = 0
           /\ i = [zero |-> 1, even |-> 2, odd |-> 1]
           /\ printed = [t \in Threads |-> FALSE]
           /\ out = <<>>

\* The spin loop of thread t ends, for the turn v, and it prints x.
printNumber(t, v, x) ==
  /\ ~printed[t] /\ i[t] <= n /\ flag = v
  /\ out' = Append(out, x)
  /\ printed' = [printed EXCEPT ![t] = TRUE]
  /\ UNCHANGED <<flag, i>>

\* It stores v and its loop variable grows by `step`.
store(t, v, step) ==
  /\ printed[t]
  /\ flag' = v
  /\ printed' = [printed EXCEPT ![t] = FALSE]
  /\ i' = [i EXCEPT ![t] = @ + step]
  /\ UNCHANGED out

\* Seeded fault: the parities are exchanged.
zero_Swapped == \/ printNumber("zero", 0, 0)
                \/ store("zero", IF i["zero"] % 2 = 0 THEN 1 ELSE 2, 1)

zero == \/ printNumber("zero", 0, 0)
        \/ store("zero", IF i["zero"] % 2 = 0 THEN 2 ELSE 1, 1)

even == printNumber("even", 2, i["even"]) \/ store("even", 0, 2)

\* Seeded fault: the turn goes to the even thread instead of back to zero.
odd_Skip == printNumber("odd", 1, i["odd"]) \/ store("odd", 2, 2)

odd == printNumber("odd", 1, i["odd"]) \/ store("odd", 0, 2)

ZeoNext == zero \/ even \/ odd

ZeoSafe == ZeoInit /\ [][ZeoNext]_zeoVars

(* Three threads; yield() lets each of them run.                           *)
ZeoSpec == ZeoSafe /\ WF_zeoVars(zero) /\ WF_zeoVars(even) /\ WF_zeoVars(odd)
-----------------------------------------------------------------------------
\* What has been printed so far is a beginning of 0 1 0 2 0 3 ... 0 n.
InOrder == /\ Len(out) <= 2 * n
           /\ \A k \in 1 .. Len(out) :
                out[k] = IF k % 2 = 1 THEN 0 ELSE k \div 2

\* All of it is printed, so the threads join.
AllPrinted == <>(Len(out) = 2 * n /\ \A t \in Threads : ~printed[t])

(* The strengthening that is inductive: whose turn it is, how far each     *)
(* thread has come, and how much has been printed belong together.         *)
NextFrom(m, parity) == IF m % 2 = parity THEN m ELSE m + 1

Turn ==
  LET m == i["zero"] IN
  \/ /\ flag = 0 /\ m \in 1 .. n + 1 /\ (printed["zero"] => m <= n)
     /\ ~printed["even"] /\ ~printed["odd"]
     /\ i["even"] = NextFrom(m, 0) /\ i["odd"] = NextFrom(m, 1)
     /\ Len(out) = 2 * (m - 1) + (IF printed["zero"] THEN 1 ELSE 0)
  \/ /\ flag = 1 /\ m \in 2 .. n + 1 /\ m % 2 = 0
     /\ ~printed["zero"] /\ ~printed["even"]
     /\ i["odd"] = m - 1 /\ i["even"] = m
     /\ Len(out) = 2 * (m - 1) - (IF printed["odd"] THEN 0 ELSE 1)
  \/ /\ flag = 2 /\ m \in 2 .. n + 1 /\ m % 2 = 1
     /\ ~printed["zero"] /\ ~printed["odd"]
     /\ i["even"] = m - 1 /\ i["odd"] = m
     /\ Len(out) = 2 * (m - 1) - (IF printed["even"] THEN 0 ELSE 1)

\* The types that the proof of Turn needs.
ZeoTypeOK == /\ flag \in 0 .. 2
             /\ i \in [Threads -> 1 .. n + 2]
             /\ printed \in [Threads -> BOOLEAN]
             /\ out \in Seq(0 .. n)
=============================================================================
