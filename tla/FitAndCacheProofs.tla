-------------------------- MODULE FitAndCacheProofs --------------------------
(***************************************************************************)
(* Two parts of which each stands for itself, for all their constants.     *)
(*                                                                         *)
(* The cache keeps its promises for any number of threads and calls, and   *)
(* implements MemoCell.                                                    *)
(*                                                                         *)
(* Whatever errors and parameters the numerics find: a fitted curve keeps  *)
(* the points and kinks it was asked to keep, and closes, and a function   *)
(* is approximated in all of its range.  For every number of points,       *)
(* degree, depth and number of rounds.                                     *)
(***************************************************************************)
EXTENDS Cache, Approximation, OrderLemmas


(***************************************************************************)
(* The inductive invariant, in named parts.                                *)
(***************************************************************************)

\* Who runs which call, and what it holds there.
Places ==
  \A t \in Thread :
    /\ pc[t] \in {"value", "locked", "building", "reading"} => t \in Readers
    /\ pc[t] \in {"writeAccess", "guard"} => t \in Writers
    /\ pc[t] = "clear" => t \in Clearers
    /\ pc[t] \notin {"reading", "guard"} <=> ref[t] = 0
    /\ pc[t] = "guard" => ref[t] = cache /\ cache # 0

\* Only the holder of the lock is inside, and there is one holder at most.
Locked == holders = Inside /\ \A t, u \in holders : t = u

\* The object in the cache is complete or the holder of the lock builds it.
Object ==
  /\ content = "none" <=> cache = 0
  /\ content = "building" <=> \E t \in Thread : pc[t] = "building"
  /\ content = "building" => cache = made + 1
  /\ content \notin {"none", "building"} => cache <= made

References ==
  \A t \in Thread : pc[t] = "reading" =>
    /\ ref[t] <= made
    /\ clearsSeen[t] <= clears
    /\ ref[t] = cache \/ clearsSeen[t] < clears

Built == /\ builds <= 1 + failures + clears
         /\ cache = 0 => builds <= failures + clears

IInv == Types /\ Places /\ Locked /\ Object /\ References /\ Built

LEMMA InitIInv == Init => IInv
BY CallsAssumption DEF Init, IInv, Types, Places, Locked, Object, References, Built,
   Inside, Place

LEMMA CallStep ==
  ASSUME IInv, NEW t \in Thread, CallValue(t) \/ CallWriteAccess(t) \/ CallClear(t)
  PROVE  IInv'
<1>1. PICK p \in {"value", "writeAccess", "clear"} :
        /\ Call(t, p)
        /\ p = "value" => t \in Readers
        /\ p = "writeAccess" => t \in Writers
        /\ p = "clear" => t \in Clearers
  BY DEF CallValue, CallWriteAccess, CallClear
<1> USE DEF IInv, Types, Call, Goto
<1>2. /\ pc' = [pc EXCEPT ![t] = p] /\ pc[t] = "idle" /\ left[t] \in Nat \ {0}
      /\ UNCHANGED <<holders, cache, content, made, ref, builds, failures, clears,
                     clearsSeen>>
  BY <1>1, CallsAssumption
<1>3. Types'
  BY <1>1, <1>2, CallsAssumption DEF Place
<1>4. Places'
  BY <1>1, <1>2 DEF Places
<1>5. Locked'
  BY <1>2 DEF Locked, Inside
<1>6. Object' /\ References' /\ Built'
  BY <1>2 DEF Object, References, Built
<1> QED
  BY <1>3, <1>4, <1>5, <1>6 DEF IInv

LEMMA ValueSteps ==
  ASSUME IInv, NEW t \in Thread,
         LockInValue(t) \/ ReturnCached(t) \/ Build(t) \/ ReturnBuilt(t) \/ Throw(t)
                        \/ Leave(t)
  PROVE  IInv'
<1> USE DEF IInv, Types, Goto, Lock, Unlock, ReturnReference
<1>1. CASE LockInValue(t)
  <2>1. Types'
    BY <1>1 DEF LockInValue, Place
  <2>2. Places'
    BY <1>1 DEF LockInValue, Places
  <2>3. Locked'
    BY <1>1 DEF LockInValue, Locked, Inside
  <2>4. Object' /\ References' /\ Built'
    BY <1>1 DEF LockInValue, Object, References, Built
  <2> QED
    BY <2>1, <2>2, <2>3, <2>4 DEF IInv
<1>2. CASE ReturnCached(t)
  <2>1. Types'
    BY <1>2 DEF ReturnCached, Place
  <2>2. Places'
    BY <1>2 DEF ReturnCached, Places
  <2>3. Locked'
    BY <1>2 DEF ReturnCached, Locked, Inside
  <2>4. content # "building"
    BY <1>2 DEF ReturnCached, Object, Locked, Inside
  <2>5. References'
    BY <1>2, <2>4 DEF ReturnCached, References, Object
  <2>6. Object' /\ Built'
    BY <1>2 DEF ReturnCached, Object, Built
  <2> QED
    BY <2>1, <2>2, <2>3, <2>5, <2>6 DEF IInv
<1>3. CASE Build(t)
  <2>1. Types'
    BY <1>3 DEF Build, Place
  <2>2. Places'
    BY <1>3 DEF Build, Places
  <2>3. Locked'
    BY <1>3 DEF Build, Locked, Inside
  <2>4. Object' /\ Built'
    BY <1>3 DEF Build, Object, Built
  <2>5. References'
    BY <1>3 DEF Build, References, Places
  <2> QED
    BY <2>1, <2>2, <2>3, <2>4, <2>5 DEF IInv
<1>4. CASE ReturnBuilt(t)
  <2>0. content = "building" /\ cache = made + 1
    BY <1>4 DEF ReturnBuilt, Object
  <2>1. Types'
    BY <1>4 DEF ReturnBuilt, Place
  <2>2. Places'
    BY <1>4, <2>0 DEF ReturnBuilt, Places
  <2>3. Locked'
    BY <1>4 DEF ReturnBuilt, Locked, Inside
  <2>4. Object'
    <3>1. \A u \in Thread : pc'[u] # "building"
      BY <1>4 DEF ReturnBuilt, Locked, Inside
    <3> QED
      BY <1>4, <2>0, <3>1 DEF ReturnBuilt, Object
  <2>5. References' /\ Built'
    BY <1>4, <2>0 DEF ReturnBuilt, References, Built
  <2> QED
    BY <2>1, <2>2, <2>3, <2>4, <2>5 DEF IInv
<1>5. CASE Throw(t)
  <2>0. content = "building" /\ cache = made + 1
    BY <1>5 DEF Throw, Object
  <2>1. Types'
    BY <1>5 DEF Throw, Place
  <2>2. Places'
    <3>1. \A u \in Thread : pc[u] # "guard"
      BY <1>5 DEF Throw, Locked, Inside
    <3> QED
      BY <1>5, <3>1 DEF Throw, Places
  <2>3. Locked'
    BY <1>5 DEF Throw, Locked, Inside
  <2>4. Object'
    <3>1. \A u \in Thread : pc'[u] # "building"
      BY <1>5 DEF Throw, Locked, Inside
    <3> QED
      BY <1>5, <3>1 DEF Throw, Object
  <2>5. References'
    BY <1>5, <2>0 DEF Throw, References
  <2>6. Built'
    BY <1>5 DEF Throw, Built
  <2> QED
    BY <2>1, <2>2, <2>3, <2>4, <2>5, <2>6 DEF IInv
<1>6. CASE Leave(t)
  <2>1. Types'
    BY <1>6 DEF Leave, Place
  <2>2. Places'
    BY <1>6 DEF Leave, Places
  <2>3. Locked'
    BY <1>6 DEF Leave, Locked, Inside
  <2>4. Object' /\ References' /\ Built'
    BY <1>6 DEF Leave, Object, References, Built
  <2> QED
    BY <2>1, <2>2, <2>3, <2>4 DEF IInv
<1> QED
  BY <1>1, <1>2, <1>3, <1>4, <1>5, <1>6

LEMMA WriteSteps ==
  ASSUME IInv, NEW t \in Thread, WriteAccess(t) \/ Edit(t) \/ DropGuard(t) \/ Clear(t)
  PROVE  IInv'
<1> USE DEF IInv, Types, Goto, Lock, Unlock
<1>1. CASE WriteAccess(t)
  <2>0. content # "building"
    BY <1>1 DEF WriteAccess, Object, Locked, Inside
  <2>1. Types'
    BY <1>1 DEF WriteAccess, Emplace, Place
  <2>2. Places'
    <3>1. \A u \in Thread : pc[u] # "guard"
      BY <1>1 DEF WriteAccess, Locked, Inside
    <3> QED
      BY <1>1, <3>1 DEF WriteAccess, Emplace, Places
  <2>3. Locked'
    BY <1>1 DEF WriteAccess, Locked, Inside
  <2>4. Object'
    BY <1>1, <2>0 DEF WriteAccess, Emplace, Object
  <2>5. References' /\ Built'
    BY <1>1 DEF WriteAccess, Emplace, References, Places, Built
  <2> QED
    BY <2>1, <2>2, <2>3, <2>4, <2>5 DEF IInv
<1>2. CASE Edit(t)
  <2>1. Types' /\ Places' /\ Locked'
    BY <1>2 DEF Edit, Places, Locked, Inside
  <2>2. content # "building" /\ content # "none"
    BY <1>2 DEF Edit, Places, Object, Locked, Inside
  <2>3. Object' /\ References' /\ Built'
    BY <1>2, <2>2 DEF Edit, Object, References, Built
  <2> QED
    BY <2>1, <2>3 DEF IInv
<1>3. CASE DropGuard(t)
  <2>1. Types'
    BY <1>3 DEF DropGuard, Place
  <2>2. Places'
    BY <1>3 DEF DropGuard, Places
  <2>3. Locked'
    BY <1>3 DEF DropGuard, Locked, Inside
  <2>4. Object' /\ References' /\ Built'
    BY <1>3 DEF DropGuard, Object, References, Built
  <2> QED
    BY <2>1, <2>2, <2>3, <2>4 DEF IInv
<1>4. CASE Clear(t)
  <2>0. \A u \in Thread : pc[u] # "building" /\ pc[u] # "guard"
    BY <1>4 DEF Clear, Locked, Inside
  <2>1. Types'
    BY <1>4 DEF Clear, Place
  <2>2. Places'
    BY <1>4, <2>0 DEF Clear, Places
  <2>3. Locked'
    BY <1>4 DEF Clear, Locked, Inside
  <2>4. Object'
    BY <1>4, <2>0 DEF Clear, Object
  <2>5. References' /\ Built'
    BY <1>4 DEF Clear, References, Built
  <2> QED
    BY <2>1, <2>2, <2>3, <2>4, <2>5 DEF IInv
<1> QED
  BY <1>1, <1>2, <1>3, <1>4

LEMMA NextIInv == IInv /\ [Next]_vars => IInv'
<1> SUFFICES ASSUME IInv, [Next]_vars PROVE IInv'
  OBVIOUS
<1>1. ASSUME NEW t \in Thread, CallValue(t) \/ CallWriteAccess(t) \/ CallClear(t)
      PROVE  IInv'
  BY <1>1, CallStep
<1>2. ASSUME NEW t \in Thread, Step(t) \/ Edit(t)
      PROVE  IInv'
  BY <1>2, ValueSteps, WriteSteps DEF Step
<1>3. CASE UNCHANGED vars
  BY <1>3 DEF vars, IInv, Types, Places, Locked, Inside, Object, References, Built
<1> QED
  BY <1>1, <1>2, <1>3 DEF Next, Finished

LEMMA Inductive == Spec => []IInv
BY InitIInv, NextIInv, PTL DEF Spec

-----------------------------------------------------------------------------
(***************************************************************************)
(* The promises.                                                           *)
(***************************************************************************)

\* The type invariant of the cache.
THEOREM CacheTypeCorrect == Spec => []TypeOK
<1>1. IInv => TypeOK
  BY DEF IInv, Locked, TypeOK
<1> QED
  BY <1>1, Inductive, PTL

\* Building and write access exclude each other and themselves.
THEOREM Guarded == Spec => []AccessIsGuarded
<1>1. IInv => AccessIsGuarded
  BY DEF IInv, Locked, AccessIsGuarded
<1> QED
  BY <1>1, Inductive, PTL

\* The reference value returns never shows an object in the making.
THEOREM Complete == Spec => []ReadersSeeNoHalfBuilt
<1>1. IInv => ReadersSeeNoHalfBuilt
  BY DEF IInv, Types, Places, References, Object, ReadersSeeNoHalfBuilt
<1> QED
  BY <1>1, Inductive, PTL

\* Only clear can leave a reader with a reference to a destroyed object.
THEOREM Valid == Spec => []OnlyClearInvalidates
<1>1. IInv => OnlyClearInvalidates
  BY DEF IInv, References, OnlyClearInvalidates
<1> QED
  BY <1>1, Inductive, PTL

\* The build function is not called more often than it has to be.
THEOREM Lazy == Spec => []BuildsAreNeeded
<1>1. IInv => BuildsAreNeeded
  BY DEF IInv, Built, BuildsAreNeeded
<1> QED
  BY <1>1, Inductive, PTL

(***************************************************************************)
(* Refinement: the reader gets its object in the step that hands out the   *)
(* reference, the writer in the one that takes the lock.                   *)
(***************************************************************************)
LEMMA MemoInit == Init => Memo!Init
BY DEF Init, Memo!Init, Thread, Memo!Thread

LEMMA MemoNext ==
  ASSUME IInv, [Next]_vars
  PROVE  [Memo!Next]_(Memo!memo)
<1> DEFINE object   == IF content = "building" THEN 0 ELSE cache
           editors  == {t \in Thread : pc[t] = "guard"}
           held     == [t \in Readers \cup Writers |-> ref[t]]
<1> USE DEF IInv, Types, Goto, Lock, Unlock, ReturnReference
<1>1. ASSUME UNCHANGED <<object, made, editors, held>>
      PROVE  [Memo!Next]_(Memo!memo)
  BY <1>1 DEF Memo!memo
<1>2. ASSUME NEW t \in Thread, CallValue(t) \/ CallWriteAccess(t) \/ CallClear(t)
      PROVE  UNCHANGED <<object, made, editors, held>>
  BY <1>2 DEF CallValue, CallWriteAccess, CallClear, Call
<1>3. ASSUME NEW t \in Thread, LockInValue(t) \/ Build(t) \/ Throw(t) \/ Edit(t)
      PROVE  UNCHANGED <<object, made, editors, held>>
  <2>1. CASE LockInValue(t)
    BY <2>1 DEF LockInValue
  <2>2. CASE Build(t)
    BY <2>2 DEF Build, Object
  <2>3. CASE Throw(t)
    BY <2>3 DEF Throw, Object
  <2>4. CASE Edit(t)
    BY <2>4 DEF Edit, Object, Locked, Inside
  <2> QED
    BY <1>3, <2>1, <2>2, <2>3, <2>4
<1>4. ASSUME NEW t \in Thread, ReturnCached(t) \/ ReturnBuilt(t)
      PROVE  Memo!Get(t)
  <2>1. t \in Readers /\ ref[t] = 0 /\ pc'[t] = "reading" /\ pc' = [pc EXCEPT ![t] = "reading"]
    BY <1>4 DEF ReturnCached, ReturnBuilt, Places
  <2>2. \A u \in Thread : pc[u] # "guard" /\ pc'[u] # "guard"
    BY <1>4 DEF ReturnCached, ReturnBuilt, Locked, Inside
  <2>3. editors = {} /\ editors' = {}
    BY <2>2
  <2>4. held' = [held EXCEPT ![t] = cache] /\ held[t] = 0 /\ ref' = [ref EXCEPT ![t] = cache]
    BY <1>4, <2>1 DEF ReturnCached, ReturnBuilt, Thread
  <2>5. CASE ReturnCached(t)
    <3>1. content # "building" /\ cache # 0 /\ UNCHANGED <<cache, content, made>>
      BY <2>5 DEF ReturnCached, Object, Locked, Inside
    <3> QED
      BY <2>1, <2>3, <2>4, <3>1 DEF Memo!Get
  <2>6. CASE ReturnBuilt(t)
    <3>1. /\ content = "building" /\ cache = made + 1 /\ content' = "built"
          /\ made' = made + 1 /\ cache' = cache
      BY <2>6 DEF ReturnBuilt, Object
    <3> QED
      BY <2>1, <2>3, <2>4, <3>1 DEF Memo!Get
  <2> QED
    BY <1>4, <2>5, <2>6
<1>5. ASSUME NEW t \in Thread, WriteAccess(t)
      PROVE  Memo!Edit(t)
  <2>1. /\ t \in Writers /\ ref[t] = 0 /\ pc' = [pc EXCEPT ![t] = "guard"]
        /\ ref' = [ref EXCEPT ![t] = cache']
    BY <1>5 DEF WriteAccess, Places
  <2>2. \A u \in Thread : pc[u] # "guard" /\ pc[u] # "building"
    BY <1>5 DEF WriteAccess, Locked, Inside
  <2>3. editors = {} /\ editors' = {t}
    BY <2>1, <2>2
  <2>4. held' = [held EXCEPT ![t] = cache'] /\ held[t] = 0
    BY <2>1 DEF Thread
  <2>5. content # "building" /\ content' # "building"
    BY <1>5, <2>2 DEF WriteAccess, Emplace, Object
  <2> QED
    BY <1>5, <2>1, <2>3, <2>4, <2>5 DEF WriteAccess, Emplace, Memo!Edit
<1>6. ASSUME NEW t \in Thread, Leave(t) \/ DropGuard(t)
      PROVE  Memo!Release(t)
  <2>1. /\ t \in Readers \cup Writers /\ ref[t] # 0
        /\ pc' = [pc EXCEPT ![t] = "idle"] /\ ref' = [ref EXCEPT ![t] = 0]
        /\ UNCHANGED <<object, made>>
    BY <1>6 DEF Leave, DropGuard, Places
  <2>2. held' = [held EXCEPT ![t] = 0] /\ held[t] # 0
    BY <2>1 DEF Thread
  <2>3. editors' = editors \ {t}
    BY <2>1
  <2> QED
    BY <2>1, <2>2, <2>3 DEF Memo!Release
<1>7. ASSUME NEW t \in Thread, Clear(t)
      PROVE  Memo!Clear
  <2>1. \A u \in Thread : pc[u] # "guard" /\ pc'[u] # "guard"
    BY <1>7 DEF Clear, Locked, Inside
  <2> QED
    BY <1>7, <2>1 DEF Clear, Memo!Clear
<1>8. ASSUME NEW t \in Thread, Step(t) \/ Edit(t)
      PROVE  [Memo!Next]_(Memo!memo)
  <2> HIDE DEF IInv, Types, Goto, Lock, Unlock, ReturnReference, object, editors, held
  <2>2. CASE ReturnCached(t) \/ ReturnBuilt(t) \/ WriteAccess(t) \/ Leave(t) \/ DropGuard(t)
    <3>1. Memo!Get(t) \/ Memo!Edit(t) \/ Memo!Release(t)
      BY <2>2, <1>4, <1>5, <1>6
    <3>2. t \in Memo!Thread
      BY <2>2 DEF IInv, Places, Memo!Thread, ReturnCached, ReturnBuilt, Leave,
                  WriteAccess, DropGuard
    <3> QED
      BY <3>1, <3>2 DEF Memo!Next
  <2>3. CASE LockInValue(t) \/ Build(t) \/ Throw(t) \/ Edit(t)
    BY <2>3, <1>1, <1>3
  <2>4. CASE Clear(t)
    BY <2>4, <1>7 DEF Memo!Next
  <2> QED
    BY <1>8, <2>2, <2>3, <2>4 DEF Step
<1>9. CASE UNCHANGED vars
  BY <1>1, <1>9 DEF vars
<1> QED
  <2> HIDE DEF IInv, Types, Goto, Lock, Unlock, ReturnReference, object, editors, held
  <2>1. ASSUME NEW t \in Thread, CallValue(t) \/ CallWriteAccess(t) \/ CallClear(t)
        PROVE  [Memo!Next]_(Memo!memo)
    BY <2>1, <1>1, <1>2
  <2> QED
    BY <2>1, <1>8, <1>9 DEF Next, Finished

\* Every behaviour of the cache, seen through its references and guards, is
\* one of the memo cell.
THEOREM CacheIsMemoCell == Spec => IsMemoCell
BY MemoInit, MemoNext, Inductive, PTL DEF Spec, IsMemoCell, Memo!Spec

-----------------------------------------------------------------------------
(***************************************************************************)
(* Sums and halves.                                                        *)
(***************************************************************************)
\* The sum is what is reached in the end by adding one after the other.
LEMMA SumReached ==
  ASSUME NEW n \in Nat, NEW s \in Seq(Int), Len(s) = n, NEW t \in [0 .. n -> Int],
         t[0] = 0, \A k \in 1 .. n : t[k] = t[k - 1] + s[k]
  PROVE  Sum(s) = t[n]
<1> DEFINE Runs(h) == h = [k \in 0 .. Len(s) |-> IF k = 0 THEN 0 ELSE h[k - 1] + s[k]]
           total == CHOOSE h : Runs(h)
           same == {k \in 0 .. n : total[k] = t[k]}
<1>1. Sum(s) = total[n]
  BY DEF Sum
<1>2. Runs(t)
  <2>1. t = [k \in 0 .. n |-> t[k]]
    OBVIOUS
  <2>2. \A k \in 0 .. n : t[k] = IF k = 0 THEN 0 ELSE t[k - 1] + s[k]
    OBVIOUS
  <2> QED
    BY <2>1, <2>2
<1>3. Runs(total)
  <2> HIDE DEF Runs
  <2> QED
    BY <1>2
<1>4. \A k \in 0 .. n : total[k] = IF k = 0 THEN 0 ELSE total[k - 1] + s[k]
  <2> HIDE DEF total
  <2> QED
    BY <1>3
<1> HIDE DEF total
<1>5. 0 \in same
  BY <1>4
<1>6. ASSUME NEW k \in 0 .. n - 1, k \in same
      PROVE  k + 1 \in same
  BY <1>4, <1>6
<1> HIDE DEF same
<1>7. 0 .. n \subseteq same
  BY <1>5, <1>6, Climb, Zenon
<1>8. n \in 0 .. n
  OBVIOUS
<1> QED
  BY <1>1, <1>7, <1>8 DEF same

LEMMA SumIsInt ==
  ASSUME NEW s \in Seq(Int)
  PROVE  Sum(s) \in Int
<1> DEFINE n == Len(s)
           step == [k \in 1 .. n |-> [x \in Int |-> x + s[k]]]
<1>0. n \in Nat /\ 0 \in Int
  OBVIOUS
<1>1. step \in [1 .. n -> [Int -> Int]]
  OBVIOUS
<1>2. \A k \in 1 .. n : \A x \in Int : step[k][x] = x + s[k]
  OBVIOUS
<1> HIDE DEF n, step
<1>3. PICK t : LoopsThrough(t, n, Int, 0, step)
  BY <1>0, <1>1, LoopRuns, Zenon
<1>4. t \in [0 .. n -> Int] /\ t[0] = 0 /\ \A k \in 1 .. n : t[k] = t[k - 1] + s[k]
  <2>1. /\ t \in [0 .. n -> Int] /\ t[0] = 0
        /\ \A k \in 1 .. n : t[k] = step[k][t[k - 1]]
    BY <1>3 DEF LoopsThrough
  <2>2. ASSUME NEW k \in 1 .. n
        PROVE  t[k] = t[k - 1] + s[k]
    <3>1. k - 1 \in 0 .. n
      BY <1>0
    <3>2. t[k - 1] \in Int
      BY <2>1, <3>1
    <3> QED
      BY <1>2, <2>1, <3>2
  <2> QED
    BY <2>1, <2>2
<1>5. Sum(s) = t[n]
  BY <1>0, <1>4, SumReached DEF n
<1> QED
  BY <1>0, <1>4, <1>5

LEMMA PartsAre ==
  /\ Parts[0] = 1
  /\ \A n \in Nat : Parts[n + 1] = 2 * Parts[n]
  /\ \A n \in Nat : Parts[n] \in Nat \ {0}
<1> DEFINE Runs(h, n) == /\ h \in [0 .. n -> Nat]
                         /\ \A k \in 0 .. n : h[k] = IF k = 0 THEN 1 ELSE 2 * h[k - 1]
           Run(n) == CHOOSE h : Runs(h, n)
           f == [n \in Nat |-> Run(n)[n]]
           IsParts(h) == h = [n \in Nat |-> IF n = 0 THEN 1 ELSE 2 * h[n - 1]]
<1>1. ASSUME NEW n \in Nat
      PROVE  \E h : Runs(h, n)
  <2> DEFINE step == [k \in 1 .. n |-> [x \in Nat |-> 2 * x]]
  <2>1. step \in [1 .. n -> [Nat -> Nat]] /\ 1 \in Nat
    OBVIOUS
  <2>2. \A k \in 1 .. n, x \in Nat : step[k][x] = 2 * x
    OBVIOUS
  <2> HIDE DEF step
  <2>3. PICK h : LoopsThrough(h, n, Nat, 1, step)
    BY <2>1, LoopRuns, Zenon
  <2>4. Runs(h, n)
    <3>1. /\ h \in [0 .. n -> Nat] /\ h[0] = 1
          /\ \A k \in 1 .. n : h[k] = step[k][h[k - 1]]
      BY <2>3 DEF LoopsThrough
    <3>2. ASSUME NEW k \in 1 .. n
          PROVE  h[k] = 2 * h[k - 1]
      <4>1. k - 1 \in 0 .. n
        OBVIOUS
      <4>2. h[k - 1] \in Nat
        BY <3>1, <4>1
      <4> QED
        BY <2>2, <3>1, <4>2
    <3> QED
      BY <3>1, <3>2
  <2> HIDE DEF Runs
  <2> QED
    BY <2>4
<1>2. ASSUME NEW n \in Nat
      PROVE  Runs(Run(n), n)
  <2> HIDE DEF Runs
  <2> QED
    BY <1>1
<1>3. ASSUME NEW n \in Nat
      PROVE  Run(n + 1)[n] = Run(n)[n]
  <2> DEFINE same == {k \in 0 .. n : Run(n + 1)[k] = Run(n)[k]}
  <2>1. /\ \A k \in 0 .. n : Run(n)[k] = IF k = 0 THEN 1 ELSE 2 * Run(n)[k - 1]
        /\ \A k \in 0 .. n + 1 : Run(n + 1)[k] = IF k = 0 THEN 1 ELSE 2 * Run(n + 1)[k - 1]
    <3>1. n + 1 \in Nat
      OBVIOUS
    <3>2. Runs(Run(n), n) /\ Runs(Run(n + 1), n + 1)
      BY <1>2, <3>1
    <3> HIDE DEF Run
    <3> QED
      BY <3>2
  <2> HIDE DEF Run
  <2>2. 0 \in same
    BY <2>1
  <2>3. ASSUME NEW k \in 0 .. n - 1, k \in same
        PROVE  k + 1 \in same
    BY <2>1, <2>3
  <2> HIDE DEF same
  <2>4. n \in same
    BY <2>2, <2>3, Climb
  <2> QED
    BY <2>4 DEF same
<1>4. \A n \in Nat : f[n] \in Nat /\ f[n] = IF n = 0 THEN 1 ELSE 2 * f[n - 1]
  <2>1. ASSUME NEW n \in Nat
        PROVE  f[n] \in Nat /\ f[n] = IF n = 0 THEN 1 ELSE 2 * f[n - 1]
    <3>1. Runs(Run(n), n) /\ f[n] = Run(n)[n]
      BY <1>2
    <3>2. n # 0 => n - 1 \in Nat /\ f[n - 1] = Run(n - 1)[n - 1]
      OBVIOUS
    <3>3. n # 0 => Run(n)[n - 1] = Run(n - 1)[n - 1]
      <4> HIDE DEF Run
      <4> QED
        BY <1>3
    <3> HIDE DEF f, Run
    <3> QED
      BY <3>1, <3>2, <3>3
  <2> QED
    BY <2>1
<1>5. IsParts(f)
  <2>1. \A n \in Nat : f[n] = IF n = 0 THEN 1 ELSE 2 * f[n - 1]
    BY <1>4
  <2>2. f = [n \in Nat |-> f[n]]
    OBVIOUS
  <2> HIDE DEF f
  <2> QED
    BY <2>1, <2>2
<1>6. Parts = CHOOSE h : IsParts(h)
  BY DEF Parts
<1>7. IsParts(Parts)
  <2> HIDE DEF IsParts, f
  <2> QED
    BY <1>5, <1>6
<1>8. \A n \in Nat : Parts[n] = IF n = 0 THEN 1 ELSE 2 * Parts[n - 1]
  BY <1>7
<1>9. ASSUME NEW n \in Nat
      PROVE  Parts[n] \in Nat \ {0}
  <2> DEFINE S == {k \in 0 .. n : Parts[k] \in Nat \ {0}}
  <2>1. 0 \in S
    BY <1>8
  <2>2. ASSUME NEW k \in 0 .. n - 1, k \in S
        PROVE  k + 1 \in S
    BY <1>8, <2>2
  <2> HIDE DEF S
  <2>3. n \in S
    BY <2>1, <2>2, Climb
  <2> QED
    BY <2>3 DEF S
<1> QED
  BY <1>8, <1>9

LEMMA FewerTimes ==
  \A a, b \in Nat : \A w \in Nat \ {0} : a * w <= b * w => a <= b
<1> SUFFICES ASSUME NEW a \in Nat, NEW b \in Nat, NEW w \in Nat \ {0}, a * w <= b * w, a > b
             PROVE  FALSE
  OBVIOUS
<1>1. PICK d \in Nat : a = b + 1 + d
  <2>1. a - b - 1 \in Nat /\ a = b + 1 + (a - b - 1)
    OBVIOUS
  <2> QED
    BY <2>1
<1>2. a * w = b * w + w + d * w
  BY <1>1
<1>3. d * w \in Nat /\ b * w \in Nat
  OBVIOUS
<1> QED
  BY <1>2, <1>3

-----------------------------------------------------------------------------
(***************************************************************************)
(* Parts that lie side by side.                                            *)
(***************************************************************************)
IsPart(p) == p.umin \in Int /\ p.umax \in Int

\* The parts cover the range from a to b in their order.
Covers(l, a, b) ==
  /\ \A i \in 1 .. Len(l) : IsPart(l[i])
  /\ \A i \in 1 .. Len(l) - 1 : l[i].umax = l[i + 1].umin
  /\ IF Len(l) = 0 THEN a = b ELSE l[1].umin = a /\ l[Len(l)].umax = b

LEMMA CoversMore ==
  ASSUME NEW S, NEW l \in Seq(S), NEW e \in S, NEW a, NEW b, Covers(l, a, b),
         IsPart(e), e.umin = b
  PROVE  Covers(Append(l, e), a, e.umax)
<1> DEFINE m == Append(l, e)
           n == Len(l)
<1>1. /\ n \in Nat /\ Len(m) = n + 1 /\ m[n + 1] = e
      /\ \A i \in 1 .. n : m[i] = l[i]
  OBVIOUS
<1> HIDE DEF m
<1>2. ASSUME NEW i \in 1 .. n + 1
      PROVE  IsPart(m[i])
  BY <1>1 DEF Covers
<1>3. ASSUME NEW i \in 1 .. n
      PROVE  m[i].umax = m[i + 1].umin
  <2>1. CASE i = n
    BY <1>1, <2>1 DEF Covers
  <2>2. CASE i \in 1 .. n - 1
    <3>1. i + 1 \in 1 .. n
      BY <2>2
    <3> QED
      BY <1>1, <2>2, <3>1 DEF Covers
  <2> QED
    BY <2>1, <2>2
<1>4. m[1].umin = a
  <2>1. CASE n = 0
    BY <1>1, <2>1 DEF Covers
  <2>2. CASE n # 0
    BY <1>1, <2>2 DEF Covers
  <2> QED
    BY <2>1, <2>2
<1> QED
  BY <1>1, <1>2, <1>3, <1>4 DEF Covers, m

LEMMA CoversRest ==
  ASSUME NEW S, NEW l \in Seq(S), l # <<>>, NEW a, NEW b, Covers(l, a, b)
  PROVE  /\ Head(l) \in S /\ IsPart(Head(l)) /\ Head(l).umin = a
         /\ Tail(l) \in Seq(S) /\ Covers(Tail(l), Head(l).umax, b)
<1> DEFINE t == Tail(l)
           n == Len(l)
<1>1. /\ n \in Nat \ {0} /\ Len(t) = n - 1 /\ Head(l) = l[1] /\ Head(l) \in S /\ t \in Seq(S)
      /\ \A i \in 1 .. n - 1 : t[i] = l[i + 1]
  OBVIOUS
<1> HIDE DEF t, n
<1>2. /\ \A i \in 1 .. n : IsPart(l[i])
      /\ \A i \in 1 .. n - 1 : l[i].umax = l[i + 1].umin
      /\ l[1].umin = a /\ l[n].umax = b
  BY <1>1 DEF Covers, n
<1>3. \A i \in 1 .. n - 1 : IsPart(t[i])
  BY <1>1, <1>2
<1>4. \A i \in 1 .. n - 2 : t[i].umax = t[i + 1].umin
  <2> SUFFICES ASSUME NEW i \in 1 .. n - 2
               PROVE  t[i].umax = t[i + 1].umin
    OBVIOUS
  <2>1. i \in 1 .. n - 1 /\ i + 1 \in 1 .. n - 1
    BY <1>1
  <2> QED
    BY <1>1, <1>2, <2>1
<1>5. IF n - 1 = 0 THEN l[1].umax = b ELSE t[1].umin = l[1].umax /\ t[n - 1].umax = b
  BY <1>1, <1>2
<1> QED
  BY <1>1, <1>2, <1>3, <1>4, <1>5 DEF Covers, t

LEMMA TwoBefore ==
  ASSUME NEW S, NEW l \in Seq(S), NEW p \in S, NEW q \in S
  PROVE  LET m == <<p, q>> \o l IN
         /\ m \in Seq(S) /\ Len(m) = Len(l) + 2 /\ m[1] = p /\ m[2] = q
         /\ \A i \in 1 .. Len(l) : m[i + 2] = l[i]
<1> DEFINE m == <<p, q>> \o l
           n == Len(l)
<1>1. n \in Nat /\ m \in Seq(S) /\ Len(m) = n + 2
  OBVIOUS
<1>2. \A i \in 1 .. n + 2 : m[i] = IF i <= 2 THEN <<p, q>>[i] ELSE l[i - 2]
  OBVIOUS
<1> QED
  BY <1>1, <1>2

LEMMA CoversHalves ==
  ASSUME NEW S, NEW l \in Seq(S), NEW p \in S, NEW q \in S, NEW b, Covers(l, q.umax, b),
         IsPart(p), IsPart(q), p.umax = q.umin,
         NEW m \in Seq(S), Len(m) = Len(l) + 2, m[1] = p, m[2] = q,
         \A i \in 1 .. Len(l) : m[i + 2] = l[i]
  PROVE  Covers(m, p.umin, b)
<1> DEFINE n == Len(l)
<1>1. n \in Nat /\ m \in Seq(S) /\ Len(m) = n + 2
  OBVIOUS
<1>3. m[1] = p /\ m[2] = q /\ \A i \in 1 .. n : m[i + 2] = l[i]
  OBVIOUS
<1>5. ASSUME NEW i \in 1 .. n + 2
      PROVE  IsPart(m[i])
  <2>1. CASE i \in {1, 2}
    BY <1>3, <2>1
  <2>2. CASE i - 2 \in 1 .. n
    <3>1. m[(i - 2) + 2] = l[i - 2] /\ (i - 2) + 2 = i
      BY <1>3, <2>2
    <3>2. IsPart(l[i - 2])
      BY <2>2 DEF Covers
    <3> QED
      BY <3>1, <3>2
  <2> QED
    BY <2>1, <2>2
<1>6. ASSUME NEW i \in 1 .. n + 1
      PROVE  m[i].umax = m[i + 1].umin
  <2>1. CASE i = 1
    BY <1>3, <2>1
  <2>2. CASE i = 2
    BY <1>1, <1>3, <2>2 DEF Covers
  <2>3. CASE i - 2 \in 1 .. n - 1
    <3>1. i - 2 \in 1 .. n /\ i - 1 \in 1 .. n
      BY <1>1, <2>3
    <3>2. m[i] = l[i - 2] /\ m[i + 1] = l[i - 1]
      <4>1. m[(i - 2) + 2] = l[i - 2] /\ m[(i - 1) + 2] = l[i - 1]
        BY <1>3, <3>1
      <4>2. (i - 2) + 2 = i /\ (i - 1) + 2 = i + 1
        OBVIOUS
      <4> QED
        BY <4>1, <4>2
    <3>3. l[i - 2].umax = l[(i - 2) + 1].umin
      BY <2>3 DEF Covers
    <3>4. (i - 2) + 1 = i - 1
      OBVIOUS
    <3> QED
      BY <3>2, <3>3, <3>4
  <2> QED
    BY <1>1, <2>1, <2>2, <2>3
<1>7. m[1].umin = p.umin /\ m[n + 2].umax = b
  BY <1>1, <1>3 DEF Covers
<1>8. Covers(m, p.umin, b)
  <2>1. \A i \in 1 .. Len(m) : IsPart(m[i])
    BY <1>1, <1>5
  <2>2. \A i \in 1 .. Len(m) - 1 : m[i].umax = m[i + 1].umin
    BY <1>1, <1>6
  <2>3. Len(m) # 0 /\ m[Len(m)].umax = b
    BY <1>1, <1>7
  <2> QED
    BY <1>7, <2>1, <2>2, <2>3 DEF Covers
<1> QED
  BY <1>8

-----------------------------------------------------------------------------
(***************************************************************************)
(* CFunctionToBspline: the curve that is made of the segments, each at     *)
(* least w long and those that are not good enough exactly so.             *)
(***************************************************************************)
Segment1 == [umin : Int, umax : Int, good : BOOLEAN]

AreSegments(l, w) ==
  /\ l \in Seq(Segment1)
  /\ \A i \in 1 .. Len(l) : /\ l[i].umax - l[i].umin >= w
                            /\ ~ l[i].good => l[i].umax - l[i].umin = w

LEMMA OneBehind ==
  ASSUME NEW S, NEW f \in Seq(S), NEW e \in S, NEW k, k = f \o <<e>>
  PROVE  /\ k \in Seq(S) /\ Len(k) = Len(f) + 1 /\ k[Len(f) + 1] = e
         /\ \A i \in 1 .. Len(f) : k[i] = f[i]
<1>1. <<e>> \in Seq(S) /\ Len(<<e>>) = 1 /\ <<e>>[1] = e
  OBVIOUS
<1> DEFINE g == <<e>>
<1> HIDE DEF g
<1>2. k = f \o g /\ g \in Seq(S) /\ Len(g) = 1 /\ g[1] = e
  BY <1>1 DEF g
<1> QED
  BY <1>2

\* k are the knots where segments l, which cover a to b, end and meet.
JointsOf(k, l, a, b) ==
  /\ k \in Seq(Int) /\ Len(k) = Len(l) + 1 /\ k[1] = a /\ k[Len(l) + 1] = b
  /\ \A i \in 1 .. Len(l) : k[i] = l[i].umin /\ k[i + 1] = l[i].umax

\* The joined curve has its knots there.
LEMMA JoinedKnots ==
  ASSUME NEW w \in Nat \ {0}, NEW l, AreSegments(l, w), NEW a \in Int, NEW b \in Int,
         Covers(l, a, b), l # <<>>
  PROVE  JointsOf(concatC1(l).knots, l, a, b)
<1> DEFINE n == Len(l)
           front == [i \in 1 .. n |-> l[i].umin]
           k == front \o <<l[n].umax>>
<1>0. n \in Nat \ {0} /\ \A i \in 1 .. n : l[i] \in Segment1
  BY DEF AreSegments
<1>1. /\ n \in Nat \ {0}
      /\ \A i \in 1 .. n : l[i].umin \in Int /\ l[i].umax \in Int
  BY <1>0 DEF Segment1
<1>2. /\ \A i \in 1 .. n - 1 : l[i].umax = l[i + 1].umin
      /\ l[1].umin = a /\ l[n].umax = b
  BY <1>1 DEF Covers
<1>3. concatC1(l).knots = k
  BY DEF concatC1
<1>4. front \in Seq(Int) /\ Len(front) = n /\ \A i \in 1 .. n : front[i] = l[i].umin
  BY <1>1
<1>5. l[n].umax \in Int
  BY <1>1
<1> HIDE DEF front, n
<1>6. /\ k \in Seq(Int) /\ Len(k) = n + 1
      /\ \A i \in 1 .. n : k[i] = front[i]
      /\ k[n + 1] = l[n].umax
  BY <1>1, <1>4, <1>5, OneBehind
<1> HIDE DEF k
<1>7. ASSUME NEW i \in 1 .. n
      PROVE  k[i] = l[i].umin /\ k[i + 1] = l[i].umax
  <2>1. CASE i = n
    BY <1>1, <1>4, <1>6, <2>1
  <2>2. CASE i \in 1 .. n - 1
    <3>1. i \in 1 .. n /\ i + 1 \in 1 .. n
      BY <1>1, <2>2
    <3> QED
      BY <1>2, <1>4, <1>6, <2>2, <3>1
  <2> QED
    BY <1>1, <2>1, <2>2
<1>8. k[1] = a /\ k[n + 1] = b
  BY <1>1, <1>2, <1>7
<1> QED
  BY <1>3, <1>6, <1>7, <1>8 DEF n, k, JointsOf

\* No more segments than there are parts of their least length.
LEMMA FewSegments ==
  ASSUME NEW w \in Nat \ {0}, NEW l, AreSegments(l, w), NEW a \in Int, NEW parts \in Nat,
         Covers(l, a, a + w * parts), l # <<>>
  PROVE  Len(l) <= parts
<1> DEFINE n == Len(l)
           k == concatC1(l).knots
           S == {i \in 0 .. n : k[i + 1] >= a + i * w}
<1>1. n \in Nat /\ w * parts \in Int /\ a + w * parts \in Int
  BY DEF AreSegments
<1>2. /\ k \in Seq(Int) /\ Len(k) = n + 1 /\ k[1] = a /\ k[n + 1] = a + w * parts
      /\ \A i \in 1 .. n : k[i] = l[i].umin /\ k[i + 1] = l[i].umax
  <2>1. JointsOf(concatC1(l).knots, l, a, a + w * parts)
    <3> HIDE DEF n, k
    <3> QED
      BY <1>1, JoinedKnots
  <2> QED
    BY <2>1, Zenon DEF JointsOf
<1>3. \A i \in 1 .. n + 1 : k[i] \in Int
  BY <1>1, <1>2
<1> HIDE DEF k
<1>4. 0 \in S
  BY <1>1, <1>2
<1>5. ASSUME NEW i \in 0 .. n - 1, i \in S
      PROVE  i + 1 \in S
  <2>1. i + 1 \in 1 .. n /\ i + 2 \in 1 .. n + 1
    BY <1>1
  <2>2. k[i + 2] - k[i + 1] >= w
    <3>1. k[i + 1] = l[i + 1].umin /\ k[(i + 1) + 1] = l[i + 1].umax
      BY <1>2, <2>1
    <3>2. (i + 1) + 1 = i + 2
      OBVIOUS
    <3>3. l[i + 1].umax - l[i + 1].umin >= w
      BY <2>1 DEF AreSegments
    <3> QED
      BY <3>1, <3>2, <3>3
  <2>3. k[i + 1] >= a + i * w
    BY <1>5
  <2>4. k[i + 1] \in Int /\ k[i + 2] \in Int
    BY <1>3, <2>1
  <2>5. (i + 1) * w = i * w + w /\ i * w \in Int
    BY <1>1
  <2>6. k[(i + 1) + 1] >= a + (i + 1) * w
    BY <2>2, <2>3, <2>4, <2>5
  <2> QED
    BY <2>1, <2>6
<1> HIDE DEF S
<1>6. 0 .. n \subseteq S
  BY <1>1, <1>4, <1>5, Climb, Zenon
<1>7. k[n + 1] >= a + n * w
  BY <1>1, <1>6 DEF S
<1>8. n * w <= parts * w
  BY <1>1, <1>2, <1>7
<1> QED
  BY <1>1, <1>8, FewerTimes

LEMMA JoinedPoles ==
  ASSUME NEW n \in Nat \ {0}, NEW degree \in Nat \ {0, 1}, NEW s \in Seq(Int), Len(s) = n + 1,
         \A i \in 1 .. n + 1 : s[i] = IF i \in {1, n + 1} THEN degree + 1 ELSE degree - 1
  PROVE  Sum(s) - degree - 1 = 2 + n * (degree - 1)
<1> DEFINE t == [k \in 0 .. n + 1 |-> IF k = 0 THEN 0
                                      ELSE IF k = n + 1 THEN 2 * (degree + 1) + (n - 1) * (degree - 1)
                                      ELSE (degree + 1) + (k - 1) * (degree - 1)]
<1>1. s \in Seq(Int) /\ Len(s) = n + 1
  OBVIOUS
<1>2. t \in [0 .. n + 1 -> Int] /\ t[0] = 0 /\ n + 1 \in Nat
  OBVIOUS
<1>3. ASSUME NEW k \in 1 .. n + 1
      PROVE  t[k] = t[k - 1] + s[k]
  <2>1. CASE k = 1
    BY <2>1
  <2>2. CASE k = n + 1
    BY <2>2
  <2>3. CASE k \in 2 .. n
    <3>1. /\ t[k] = (degree + 1) + (k - 1) * (degree - 1)
          /\ t[k - 1] = (degree + 1) + (k - 2) * (degree - 1)
          /\ s[k] = degree - 1
      BY <2>3
    <3>2. (k - 1) * (degree - 1) = (k - 2) * (degree - 1) + (degree - 1)
      OBVIOUS
    <3> QED
      BY <3>1, <3>2
  <2> QED
    BY <2>1, <2>2, <2>3
<1>4. t[n + 1] = 2 * (degree + 1) + (n - 1) * (degree - 1)
  OBVIOUS
<1> HIDE DEF t
<1>5. Sum(s) = t[n + 1]
  BY <1>1, <1>2, <1>3, SumReached
<1>6. (n - 1) * (degree - 1) = n * (degree - 1) - (degree - 1)
  OBVIOUS
<1>7. n * (degree - 1) \in Int
  OBVIOUS
<1> QED
  BY <1>4, <1>5, <1>6, <1>7

-----------------------------------------------------------------------------
(***************************************************************************)
(* CFunctionToBspline: the invariant.  The segments that are there and the *)
(* parts still to come lie side by side, from one end of the range to the  *)
(* other, and a part of depth d is as long as the range halved d - 1 times.*)
(***************************************************************************)
Part1 == [umin : Int, umax : Int, depth : Nat]

AreParts(l, w) ==
  /\ l \in Seq(Part1)
  /\ \A i \in 1 .. Len(l) :
       /\ l[i].depth \in 1 .. fitter.maxDepth
       /\ l[i].umax - l[i].umin = w * Parts[fitter.maxDepth - l[i].depth]

Halved(w, todo, segments, mid) ==
  /\ fitting = [at |-> "split", todo |-> todo, segments |-> segments]
  /\ AreParts(todo, w) /\ AreSegments(segments, w)
  /\ Covers(segments, fitter.umin, mid) /\ Covers(todo, mid, fitter.umax)

\* w: the length of the least part.
IsLeast(w) == fitter.umax - fitter.umin = w * Parts[fitter.maxDepth - 1]

SplitInv ==
  fitter \in Functions =>
    \/ fitting = Idle
    \/ \E w \in Nat \ {0} : IsLeast(w) /\ \E todo, segments, mid : Halved(w, todo, segments, mid)

FunctionInv == fitter \in Fits \cup Functions /\ SplitInv /\ FunctionIsCovered

LEMMA OfFunctions ==
  ASSUME fitter \in Functions
  PROVE  /\ fitter.umin \in Int /\ fitter.umax \in Int /\ fitter.umin < fitter.umax
         /\ fitter.degree \in Nat \ {0, 1} /\ fitter.maxDepth \in Nat \ {0}
         /\ \E w \in Nat \ {0} : IsLeast(w)
BY FitsAssumption DEF IsFunction, IsLeast

LEMMA HalvedNext ==
  ASSUME NEW w \in Nat \ {0}, IsLeast(w), fitter' = fitter,
         \E todo, segments, mid :
           /\ fitting' = [at |-> "split", todo |-> todo, segments |-> segments]
           /\ AreParts(todo, w) /\ AreSegments(segments, w)
           /\ Covers(segments, fitter.umin, mid) /\ Covers(todo, mid, fitter.umax)
  PROVE  SplitInv'
<1>1. PICK todo, segments, mid :
        /\ fitting' = [at |-> "split", todo |-> todo, segments |-> segments]
        /\ AreParts(todo, w) /\ AreSegments(segments, w)
        /\ Covers(segments, fitter.umin, mid) /\ Covers(todo, mid, fitter.umax)
  OBVIOUS
<1>2. IsLeast(w)' /\ AreParts(todo, w)'
  BY <1>1 DEF IsLeast, AreParts
<1>3. Halved(w, todo, segments, mid)'
  BY <1>1, <1>2 DEF Halved
<1> QED
  BY <1>2, <1>3, Zenon DEF SplitInv

LEMMA CurveStarts ==
  ASSUME FunctionInv, Curve
  PROVE  FunctionInv'
<1> DEFINE todo == <<Part(fitter.umin, fitter.umax, 1)>>
<1>1. /\ fitter \in Functions /\ fitter' = fitter /\ fitted' = fitted
      /\ fitting' = [at |-> "split", todo |-> todo, segments |-> <<>>]
  BY DEF Curve
<1>2. PICK w \in Nat \ {0} : IsLeast(w)
  BY <1>1, OfFunctions
<1>3. /\ fitter.umin \in Int /\ fitter.umax \in Int /\ fitter.maxDepth \in Nat \ {0}
  BY <1>1, OfFunctions
<1>4. /\ todo \in Seq(Part1) /\ Len(todo) = 1
      /\ todo[1].umin = fitter.umin /\ todo[1].umax = fitter.umax /\ todo[1].depth = 1
  BY <1>3 DEF Part, Part1
<1>5. AreParts(todo, w) /\ AreSegments(<<>>, w)
  BY <1>2, <1>3, <1>4 DEF AreParts, AreSegments, IsLeast
<1>6. Covers(<<>>, fitter.umin, fitter.umin) /\ Covers(todo, fitter.umin, fitter.umax)
  BY <1>3, <1>4 DEF Covers, IsPart
<1>7. SplitInv'
  BY <1>1, <1>2, <1>5, <1>6, HalvedNext
<1> QED
  BY <1>1, <1>7 DEF FunctionInv, FunctionIsCovered

LEMMA KeepKeeps ==
  ASSUME NEW w \in Nat \ {0}, IsLeast(w), NEW todo, NEW segments, NEW mid,
         Halved(w, todo, segments, mid), todo # <<>>, fitter \in Functions,
         NEW good \in BOOLEAN, Keep(good)
  PROVE  \E todo1, segments1, mid1 :
           /\ fitting' = [at |-> "split", todo |-> todo1, segments |-> segments1]
           /\ AreParts(todo1, w) /\ AreSegments(segments1, w)
           /\ Covers(segments1, fitter.umin, mid1) /\ Covers(todo1, mid1, fitter.umax)
<1> DEFINE next == Head(todo)
           e == [umin |-> next.umin, umax |-> next.umax, good |-> good]
           todo1 == Tail(todo)
           segments1 == Append(segments, e)
<1>1. fitting.todo = todo /\ fitting.segments = segments
  BY DEF Halved
<1>2. /\ fitting' = [at |-> "split", todo |-> todo1, segments |-> segments1]
      /\ good \/ next.depth >= fitter.maxDepth
  BY <1>1 DEF Keep, Halved
<1>3. /\ next \in Part1 /\ IsPart(next) /\ next.umin = mid
      /\ todo1 \in Seq(Part1) /\ Covers(todo1, next.umax, fitter.umax)
  <2> HIDE DEF todo1, next
  <2> QED
    <3>1. todo \in Seq(Part1) /\ Covers(todo, mid, fitter.umax)
      BY DEF Halved, AreParts
    <3> QED
      BY <3>1, CoversRest DEF todo1, next
<1>4. /\ todo \in Seq(Part1) /\ Len(todo) \in Nat \ {0} /\ next = todo[1]
      /\ Len(todo1) = Len(todo) - 1 /\ \A i \in 1 .. Len(todo) - 1 : todo1[i] = todo[i + 1]
  <2>1. todo \in Seq(Part1)
    BY DEF Halved, AreParts
  <2> QED
    BY <2>1
<1>5. AreParts(todo1, w)
  <2> HIDE DEF todo1
  <2>1. ASSUME NEW i \in 1 .. Len(todo1)
        PROVE  /\ todo1[i].depth \in 1 .. fitter.maxDepth
               /\ todo1[i].umax - todo1[i].umin = w * Parts[fitter.maxDepth - todo1[i].depth]
    <3>1. i + 1 \in 1 .. Len(todo) /\ todo1[i] = todo[i + 1]
      BY <1>4
    <3> QED
      BY <3>1 DEF Halved, AreParts
  <2> QED
    BY <1>3, <2>1 DEF AreParts
<1>6. /\ fitter.maxDepth \in Nat \ {0} /\ next.depth \in 1 .. fitter.maxDepth
      /\ next.umax - next.umin = w * Parts[fitter.maxDepth - next.depth]
  BY <1>4, OfFunctions DEF Halved, AreParts
<1> HIDE DEF todo1, next
<1>7. /\ next.umax - next.umin >= w
      /\ ~ good => next.umax - next.umin = w
  <2>1. fitter.maxDepth - next.depth \in Nat
    BY <1>6
  <2>2. Parts[fitter.maxDepth - next.depth] \in Nat \ {0}
    BY <2>1, PartsAre
  <2>3. \A n \in Nat \ {0} : w * n >= w
    OBVIOUS
  <2>4. next.umax - next.umin >= w
    BY <1>6, <2>2, <2>3
  <2>5. ASSUME ~ good
        PROVE  next.umax - next.umin = w
    <3>1. fitter.maxDepth - next.depth = 0
      BY <1>2, <1>6, <2>5
    <3> QED
      BY <1>6, <3>1, PartsAre
  <2> QED
    BY <2>4, <2>5
<1>8. /\ e \in Segment1 /\ IsPart(e) /\ e.umin = mid /\ e.umax = next.umax
      /\ e.umax - e.umin >= w /\ (~ e.good => e.umax - e.umin = w)
  BY <1>3, <1>7 DEF IsPart, Segment1
<1> HIDE DEF e
<1>9. segments \in Seq(Segment1) /\ Covers(segments, fitter.umin, mid)
  BY DEF Halved, AreSegments
<1>10. Covers(segments1, fitter.umin, next.umax)
  BY <1>8, <1>9, CoversMore
<1>11. AreSegments(segments1, w)
  <2>1. /\ segments1 \in Seq(Segment1) /\ Len(segments1) = Len(segments) + 1
        /\ segments1[Len(segments) + 1] = e
        /\ \A i \in 1 .. Len(segments) : segments1[i] = segments[i]
    BY <1>8, <1>9
  <2> HIDE DEF segments1
  <2>2. \A i \in 1 .. Len(segments) : /\ segments[i].umax - segments[i].umin >= w
                                      /\ ~ segments[i].good => segments[i].umax - segments[i].umin = w
    BY DEF Halved, AreSegments
  <2>3. \A i \in 1 .. Len(segments1) : i = Len(segments) + 1 \/ i \in 1 .. Len(segments)
    BY <1>9, <2>1
  <2> QED
    BY <1>8, <2>1, <2>2, <2>3 DEF AreSegments
<1> HIDE DEF segments1
<1> QED
  BY <1>2, <1>3, <1>5, <1>10, <1>11

\* Halves are whole numbers, as the part is longer than the least one.
LEMMA HalfOf ==
  ASSUME NEW a \in Int, NEW b \in Int, NEW q \in Int, b - a = 2 * q
  PROVE  (a + b) \div 2 = a + q
<1>1. a + b = 2 * (a + q)
  OBVIOUS
<1> QED
  BY <1>1

LEMMA SplitKeeps ==
  ASSUME NEW w \in Nat \ {0}, IsLeast(w), NEW todo, NEW segments, NEW mid,
         Halved(w, todo, segments, mid), todo # <<>>, fitter \in Functions, Split
  PROVE  \E todo1, segments1, mid1 :
           /\ fitting' = [at |-> "split", todo |-> todo1, segments |-> segments1]
           /\ AreParts(todo1, w) /\ AreSegments(segments1, w)
           /\ Covers(segments1, fitter.umin, mid1) /\ Covers(todo1, mid1, fitter.umax)
<1> DEFINE next == Head(todo)
           half == (next.umin + next.umax) \div 2
           rest == Tail(todo)
           p == Part(next.umin, half, next.depth + 1)
           q == Part(half, next.umax, next.depth + 1)
           todo1 == <<p, q>> \o rest
<1>1. fitting.todo = todo /\ fitting.segments = segments
  BY DEF Halved
<1>2. /\ fitting' = [at |-> "split", todo |-> todo1, segments |-> segments]
      /\ next.depth < fitter.maxDepth
  BY <1>1 DEF Split, Halved
<1>3. /\ todo \in Seq(Part1) /\ Covers(todo, mid, fitter.umax)
      /\ \A i \in 1 .. Len(todo) :
           /\ todo[i].depth \in 1 .. fitter.maxDepth
           /\ todo[i].umax - todo[i].umin = w * Parts[fitter.maxDepth - todo[i].depth]
  BY DEF Halved, AreParts
<1>4. /\ next \in Part1 /\ IsPart(next) /\ next.umin = mid
      /\ rest \in Seq(Part1) /\ Covers(rest, next.umax, fitter.umax)
  <2> HIDE DEF rest, next
  <2> QED
    BY <1>3, CoversRest DEF rest, next
<1>5. /\ Len(todo) \in Nat \ {0} /\ next = todo[1]
      /\ Len(rest) = Len(todo) - 1 /\ \A i \in 1 .. Len(todo) - 1 : rest[i] = todo[i + 1]
  BY <1>3
<1>6. /\ fitter.maxDepth \in Nat \ {0} /\ next.depth \in 1 .. fitter.maxDepth
      /\ next.umax - next.umin = w * Parts[fitter.maxDepth - next.depth]
  BY <1>3, <1>5, OfFunctions
<1> HIDE DEF rest, next
<1> DEFINE less == fitter.maxDepth - (next.depth + 1)
           length == w * Parts[less]
<1>7. /\ less \in Nat /\ length \in Int
      /\ next.umax - next.umin = 2 * length
  <2>1. less \in Nat /\ less + 1 = fitter.maxDepth - next.depth
    BY <1>2, <1>6
  <2> HIDE DEF less
  <2>2. Parts[less] \in Nat /\ Parts[less + 1] = 2 * Parts[less]
    BY <2>1, PartsAre
  <2>3. w * (2 * Parts[less]) = 2 * (w * Parts[less]) /\ w * Parts[less] \in Int
    BY <2>2
  <2> QED
    BY <1>6, <2>1, <2>2, <2>3
<1>8. half = next.umin + length
  <2> HIDE DEF length
  <2>1. next.umin \in Int /\ next.umax \in Int
    BY <1>4 DEF IsPart
  <2> QED
    BY <1>7, <2>1, HalfOf
<1>9. /\ p = [umin |-> next.umin, umax |-> half, depth |-> next.depth + 1]
      /\ q = [umin |-> half, umax |-> next.umax, depth |-> next.depth + 1]
  BY DEF Part
<1>10. half \in Int /\ next.umin \in Int /\ next.umax \in Int /\ next.depth + 1 \in Nat
  <2>1. next.umin \in Int /\ next.umax \in Int
    BY <1>4 DEF IsPart
  <2> HIDE DEF length, half
  <2>2. half \in Int
    BY <1>7, <1>8, <2>1
  <2>3. next.depth + 1 \in Nat
    BY <1>6
  <2> QED
    BY <2>1, <2>2, <2>3
<1>11. half - next.umin = length /\ next.umax - half = length
  <2> HIDE DEF length, half
  <2> QED
    BY <1>7, <1>8, <1>10
<1> HIDE DEF half, p, q
<1>12. /\ p \in Part1 /\ q \in Part1 /\ IsPart(p) /\ IsPart(q) /\ p.umax = q.umin
       /\ p.umin = mid /\ q.umax = next.umax
       /\ p.depth = next.depth + 1 /\ q.depth = next.depth + 1
       /\ p.umax - p.umin = length /\ q.umax - q.umin = length
  <2> HIDE DEF length
  <2> QED
    BY <1>4, <1>9, <1>10, <1>11 DEF Part1, IsPart
<1>13. /\ todo1 \in Seq(Part1) /\ Len(todo1) = Len(rest) + 2
       /\ todo1[1] = p /\ todo1[2] = q /\ \A i \in 1 .. Len(rest) : todo1[i + 2] = rest[i]
       /\ Covers(todo1, mid, fitter.umax)
  <2>1. Covers(rest, q.umax, fitter.umax)
    BY <1>4, <1>12
  <2>2. /\ rest \in Seq(Part1) /\ p \in Part1 /\ q \in Part1
        /\ IsPart(p) /\ IsPart(q) /\ p.umax = q.umin
    BY <1>4, <1>12
  <2>3. /\ todo1 \in Seq(Part1) /\ Len(todo1) = Len(rest) + 2
        /\ todo1[1] = p /\ todo1[2] = q /\ \A i \in 1 .. Len(rest) : todo1[i + 2] = rest[i]
    BY <2>2, TwoBefore
  <2> HIDE DEF todo1
  <2>4. Covers(todo1, p.umin, fitter.umax)
    BY <2>1, <2>2, <2>3, CoversHalves
  <2> QED
    BY <1>12, <2>3, <2>4
<1> HIDE DEF todo1
<1>14. AreParts(todo1, w)
  <2>1. next.depth + 1 \in 1 .. fitter.maxDepth
    BY <1>2, <1>6
  <2>2. ASSUME NEW i \in 1 .. Len(todo1)
        PROVE  /\ todo1[i].depth \in 1 .. fitter.maxDepth
               /\ todo1[i].umax - todo1[i].umin = w * Parts[fitter.maxDepth - todo1[i].depth]
    <3>1. CASE i \in {1, 2}
      BY <1>7, <1>12, <1>13, <2>1, <3>1
    <3>2. CASE i \notin {1, 2}
      <4>1. /\ i - 2 \in 1 .. Len(todo) - 1 /\ (i - 2) + 1 \in 1 .. Len(todo)
            /\ i - 2 \in 1 .. Len(rest) /\ (i - 2) + 2 = i
        BY <1>5, <1>13, <3>2
      <4>2. todo1[i] = rest[i - 2]
        BY <1>13, <4>1
      <4>3. rest[i - 2] = todo[(i - 2) + 1]
        BY <1>5, <4>1
      <4> QED
        BY <1>3, <4>1, <4>2, <4>3
    <3> QED
      BY <3>1, <3>2
  <2> QED
    BY <1>13, <2>2 DEF AreParts
<1>15. AreSegments(segments, w) /\ Covers(segments, fitter.umin, mid)
  BY DEF Halved
<1> QED
  BY <1>2, <1>13, <1>14, <1>15

LEMMA ApproxSegmentKeeps ==
  ASSUME FunctionInv, ApproxSegment
  PROVE  FunctionInv'
<1>1. UNCHANGED <<fitter, fitted>> /\ fitting.at = "split" /\ fitting.todo # <<>>
  BY DEF ApproxSegment
<1>2. CASE fitter \in Functions
  <2>0. PICK w \in Nat \ {0} : IsLeast(w) /\ \E todo, segments, mid : Halved(w, todo, segments, mid)
    BY <1>1, <1>2 DEF FunctionInv, SplitInv, Idle
  <2>1. PICK todo, segments, mid : Halved(w, todo, segments, mid)
    BY <2>0
  <2>2. todo # <<>>
    BY <1>1, <2>1 DEF Halved
  <2>3. Keep(TRUE) \/ Keep(FALSE) \/ Split
    BY DEF ApproxSegment
  <2>4. \E todo1, segments1, mid1 :
           /\ fitting' = [at |-> "split", todo |-> todo1, segments |-> segments1]
           /\ AreParts(todo1, w) /\ AreSegments(segments1, w)
           /\ Covers(segments1, fitter.umin, mid1) /\ Covers(todo1, mid1, fitter.umax)
    BY <1>2, <2>0, <2>1, <2>2, <2>3, KeepKeeps, SplitKeeps
  <2>5. SplitInv'
    BY <1>1, <2>0, <2>4, HalvedNext
  <2> QED
    BY <1>1, <2>5 DEF FunctionInv, FunctionIsCovered
<1>3. CASE fitter \notin Functions
  BY <1>1, <1>3 DEF FunctionInv, SplitInv, FunctionIsCovered
<1> QED
  BY <1>2, <1>3

\* The joined curve is a spline without a kink.
LEMMA JoinedIsSpline ==
  ASSUME fitter \in Functions, NEW w \in Nat \ {0}, NEW l, AreSegments(l, w), l # <<>>,
         Covers(l, fitter.umin, fitter.umax)
  PROVE  LET c == concatC1(l) IN
         /\ IsSplineOf(c, NbJoinedC1Poles(l))
         /\ FirstParameter(c) = fitter.umin /\ LastParameter(c) = fitter.umax
         /\ getKinkParameters(c) = {}
<1> DEFINE n == Len(l)
           d == fitter.degree
           c == concatC1(l)
           mults == [i \in 1 .. n + 1 |-> IF i \in {1, n + 1} THEN d + 1 ELSE d - 1]
<1>1. /\ n \in Nat \ {0} /\ d \in Nat \ {0, 1}
      /\ fitter.umin \in Int /\ fitter.umax \in Int
  BY OfFunctions DEF AreSegments
<1>2. c.degree = d /\ c.mults = mults
  BY DEF concatC1, C1Joint
<1>3. /\ c.knots \in Seq(Int) /\ Len(c.knots) = n + 1
      /\ c.knots[1] = fitter.umin /\ c.knots[n + 1] = fitter.umax
      /\ \A i \in 1 .. n : c.knots[i] = l[i].umin /\ c.knots[i + 1] = l[i].umax
  <2> HIDE DEF c, n
  <2>1. JointsOf(concatC1(l).knots, l, fitter.umin, fitter.umax)
    BY <1>1, JoinedKnots
  <2> QED
    BY <2>1, Zenon DEF JointsOf, c, n
<1>4. /\ Len(mults) = n + 1 /\ DOMAIN mults = 1 .. n + 1
      /\ \A i \in 1 .. n + 1 : mults[i] = IF i \in {1, n + 1} THEN d + 1 ELSE d - 1
      /\ mults \in Seq(Int)
  BY <1>1
<1>5. Sum(mults) - d - 1 = 2 + n * (d - 1) /\ n * (d - 1) \in Nat
  <2>1. Sum(mults) - d - 1 = 2 + n * (d - 1)
    <3> HIDE DEF n, d, mults
    <3> QED
      BY <1>1, <1>4, JoinedPoles
  <2>2. \A x, y \in Nat : x * y \in Nat
    OBVIOUS
  <2>3. n \in Nat /\ d - 1 \in Nat
    BY <1>1
  <2>4. n * (d - 1) \in Nat
    BY <2>2, <2>3
  <2> QED
    BY <2>1, <2>4
<1> HIDE DEF n, d, mults, c
<1>6. ASSUME NEW i \in 1 .. n
      PROVE  c.knots[i] < c.knots[i + 1]
  <2>1. l[i] \in Segment1 /\ l[i].umax - l[i].umin >= w
    BY <1>1 DEF AreSegments, n
  <2>2. l[i].umin \in Int /\ l[i].umax \in Int
    BY <2>1 DEF Segment1
  <2> QED
    BY <1>3, <2>1, <2>2
<1>7. Ascending(c.knots)
  BY <1>1, <1>3, <1>6 DEF Ascending
<1>8. FirstParameter(c) = fitter.umin /\ LastParameter(c) = fitter.umax
  BY <1>1, <1>3 DEF FirstParameter, LastParameter, Last
<1>9. NbPoles(c) = NbJoinedC1Poles(l) /\ NbJoinedC1Poles(l) >= 2
  BY <1>2, <1>5 DEF NbPoles, NbJoinedC1Poles, n, d
<1>10. /\ Head(mults) = d + 1 /\ Last(mults) = d + 1
       /\ \A i \in 1 .. n + 1 : mults[i] >= 1
       /\ \A i \in 2 .. n : mults[i] = d - 1
  BY <1>1, <1>4 DEF Last
<1>11. IsSplineOf(c, NbJoinedC1Poles(l))
  BY <1>1, <1>2, <1>3, <1>4, <1>7, <1>9, <1>10 DEF IsSplineOf
<1>12. getKinkParameters(c) = {}
  <2>1. \A i \in 1 .. n + 1 : ~ IsKinkKnot(c, i)
    BY <1>1, <1>2, <1>3, <1>10 DEF IsKinkKnot
  <2>2. DOMAIN c.knots = 1 .. n + 1
    BY <1>1, <1>3
  <2> QED
    BY <2>1, <2>2 DEF getKinkParameters
<1> QED
  BY <1>8, <1>11, <1>12 DEF c

LEMMA ReturnCurveKeeps ==
  ASSUME FunctionInv, ReturnCurve
  PROVE  FunctionInv'
<1>1. UNCHANGED fitter /\ fitting' = Idle /\ fitting.at = "split" /\ fitting.todo = <<>>
  BY DEF ReturnCurve
<1>2. CASE fitter \in Functions
  <2>1. PICK w \in Nat \ {0} : IsLeast(w) /\ \E todo, segments, mid : Halved(w, todo, segments, mid)
    BY <1>1, <1>2 DEF FunctionInv, SplitInv, Idle
  <2>2. PICK todo, l, mid : Halved(w, todo, l, mid)
    BY <2>1
  <2>3. fitting.segments = l /\ todo = <<>> /\ AreSegments(l, w)
    BY <1>1, <2>2 DEF Halved
  <2>4. Covers(l, fitter.umin, fitter.umax) /\ l # <<>>
    <3>1. mid = fitter.umax
      BY <2>2, <2>3 DEF Halved, Covers
    <3>2. Covers(l, fitter.umin, fitter.umax)
      BY <2>2, <3>1 DEF Halved
    <3>3. fitter.umin # fitter.umax
      BY <1>2, OfFunctions
    <3> QED
      BY <3>2, <3>3 DEF Covers
  <2> DEFINE c == concatC1(l)
  <2>5. /\ IsSplineOf(c, NbJoinedC1Poles(l))
        /\ FirstParameter(c) = fitter.umin /\ LastParameter(c) = fitter.umax
        /\ getKinkParameters(c) = {}
    <3> HIDE DEF c
    <3> QED
      BY <1>2, <2>3, <2>4, JoinedIsSpline DEF c
  <2>6. fitted' = [end |-> "returned", curve |-> c,
                   error |-> IF \A i \in DOMAIN l : l[i].good THEN 0 ELSE 1]
    BY <2>3, <2>5 DEF ReturnCurve
  <2>7. /\ fitter.umin \in Int /\ fitter.umax \in Int /\ fitter.maxDepth \in Nat \ {0}
        /\ fitter.maxDepth - 1 \in Nat
    BY <1>2, OfFunctions
  <2>8. Parts[fitter.maxDepth - 1] \in Nat \ {0}
    BY <2>7, PartsAre
  <2> DEFINE parts == Parts[fitter.maxDepth - 1]
  <2>9. /\ c.knots \in Seq(Int) /\ Len(c.knots) = Len(l) + 1
        /\ \A i \in 1 .. Len(l) : c.knots[i] = l[i].umin /\ c.knots[i + 1] = l[i].umax
    <3> HIDE DEF c
    <3>1. JointsOf(concatC1(l).knots, l, fitter.umin, fitter.umax)
      BY <2>3, <2>4, <2>7, JoinedKnots
    <3> QED
      BY <3>1, Zenon DEF JointsOf, c
  <2>10. fitter.umax - fitter.umin = w * parts
    BY <2>1 DEF IsLeast
  <2> HIDE DEF c, parts
  <2>11. Len(l) <= parts
    <3>1. fitter.umax = fitter.umin + w * parts
      BY <2>7, <2>8, <2>10 DEF parts
    <3> QED
      BY <2>3, <2>4, <2>7, <2>8, <3>1, FewSegments DEF parts
  <2>12. Len(c.knots) <= parts + 1
    BY <2>3, <2>8, <2>9, <2>11 DEF parts, AreSegments
  <2>13. ASSUME fitted'.error > 0
         PROVE  \E i \in 2 .. Len(c.knots) :
                  (c.knots[i] - c.knots[i - 1]) * parts = fitter.umax - fitter.umin
    <3>1. Len(l) \in Nat /\ DOMAIN l = 1 .. Len(l)
      BY <2>3 DEF AreSegments
    <3>2. PICK i \in 1 .. Len(l) : ~ l[i].good
      BY <2>6, <2>13, <3>1
    <3>3. l[i].umax - l[i].umin = w
      BY <2>3, <3>2 DEF AreSegments
    <3>4. c.knots[i] = l[i].umin /\ c.knots[i + 1] = l[i].umax
      BY <2>9, <3>2
    <3>5. i + 1 \in 2 .. Len(c.knots) /\ (i + 1) - 1 = i
      BY <2>9, <3>1
    <3>6. (c.knots[i + 1] - c.knots[(i + 1) - 1]) * parts = fitter.umax - fitter.umin
      BY <2>10, <3>3, <3>4, <3>5
    <3> QED
      BY <3>5, <3>6
  <2>14. FunctionIsCovered'
    <3>1. fitted'.end = "returned" /\ fitted'.curve = c
      BY <2>6
    <3> QED
      BY <1>1, <2>5, <2>12, <2>13, <3>1 DEF FunctionIsCovered, parts
  <2>15. SplitInv'
    BY <1>1 DEF SplitInv
  <2> QED
    BY <1>1, <2>14, <2>15 DEF FunctionInv
<1>3. CASE fitter \notin Functions
  BY <1>1, <1>3 DEF FunctionInv, SplitInv, FunctionIsCovered
<1> QED
  BY <1>2, <1>3

\* The other steps are those of BSplineApproxInterp.
LEMMA FunctionInvStarts == FitInit => FunctionInv
BY DEF FitInit, FunctionInv, SplitInv, FunctionIsCovered

LEMMA FunctionInvStays ==
  ASSUME FunctionInv, [FitNext]_fitVars
  PROVE  FunctionInv'
<1>1. CASE InterpolatePoint \/ Fit
  BY <1>1, FitsAssumption DEF InterpolatePoint, Fit, FunctionInv, SplitInv, FunctionIsCovered
<1>2. CASE Optimize \/ Singular \/ ReturnFit
  <2>1. fitting.at = "fit" /\ fitter' = fitter
    BY <1>2 DEF Optimize, Singular, ReturnFit
  <2>2. fitter \notin Functions
    BY <2>1 DEF FunctionInv, SplitInv, Halved, Idle
  <2> QED
    BY <2>1, <2>2 DEF FunctionInv, SplitInv, FunctionIsCovered
<1>3. CASE Curve
  BY <1>3, CurveStarts
<1>4. CASE ApproxSegment
  BY <1>4, ApproxSegmentKeeps
<1>5. CASE ReturnCurve
  BY <1>5, ReturnCurveKeeps
<1>6. CASE UNCHANGED fitVars
  BY <1>6 DEF fitVars, FunctionInv, SplitInv, FunctionIsCovered, Halved, IsLeast, AreParts
<1> QED
  BY <1>1, <1>2, <1>3, <1>4, <1>5, <1>6 DEF FitNext

THEOREM FunctionsAreCovered == FitSpec => []FunctionIsCovered
<1>1. FunctionInv => FunctionIsCovered
  BY DEF FunctionInv
<1> QED
  BY <1>1, FunctionInvStarts, FunctionInvStays, PTL DEF FitSpec

-----------------------------------------------------------------------------
(***************************************************************************)
(* BSplineApproxInterp: knots at the kinks.                                *)
(***************************************************************************)
HasOneMore(t, s, p, e) ==
  /\ Len(t) = Len(s) + 1 /\ t[p] = e
  /\ \A i \in 1 .. p - 1 : t[i] = s[i]
  /\ \A i \in p .. Len(s) : t[i + 1] = s[i]

LEMMA OneBetween ==
  ASSUME NEW S, NEW s \in Seq(S), NEW p \in 1 .. Len(s) + 1, NEW e \in S,
         NEW t, t = InsertAt(s, p, e)
  PROVE  t \in Seq(S) /\ HasOneMore(t, s, p, e)
<1> DEFINE n == Len(s)
           front == SubSeq(s, 1, p - 1)
           back == SubSeq(s, p, n)
           begin == front \o <<e>>
<1>1. n \in Nat /\ p \in Int
  OBVIOUS
<1>2. front \in Seq(S) /\ Len(front) = p - 1 /\ \A i \in 1 .. p - 1 : front[i] = s[i]
  BY <1>1
<1>3. back \in Seq(S) /\ Len(back) = n - p + 1 /\ \A i \in 1 .. n - p + 1 : back[i] = s[p + i - 1]
  BY <1>1
<1>4. t = begin \o back
  BY DEF InsertAt
<1> HIDE DEF front, back
<1>5. /\ begin \in Seq(S) /\ Len(begin) = p /\ begin[p] = e
      /\ \A i \in 1 .. p - 1 : begin[i] = s[i]
  BY <1>1, <1>2, OneBehind
<1> HIDE DEF begin, n
<1>6. t \in Seq(S) /\ Len(t) = n + 1
  <2>1. begin \in Seq(S) /\ back \in Seq(S)
    BY <1>3, <1>5
  <2>2. t \in Seq(S) /\ Len(t) = Len(begin) + Len(back)
    BY <1>4, <2>1
  <2>3. Len(begin) = p /\ Len(back) = n - p + 1
    BY <1>3, <1>5
  <2> QED
    BY <1>1, <2>2, <2>3
<1>7. \A i \in 1 .. p : t[i] = begin[i]
  BY <1>3, <1>4, <1>5
<1>8. \A i \in 1 .. n - p + 1 : t[p + i] = back[i]
  BY <1>1, <1>3, <1>4, <1>5
<1>9. \A i \in p .. n : t[i + 1] = s[i]
  <2> SUFFICES ASSUME NEW i \in p .. n
               PROVE  t[i + 1] = s[i]
    OBVIOUS
  <2>1. i - p + 1 \in 1 .. n - p + 1 /\ p + (i - p + 1) = i + 1 /\ p + (i - p + 1) - 1 = i
    BY <1>1
  <2> QED
    BY <1>3, <1>8, <2>1
<1>10. t[p] = e /\ \A i \in 1 .. p - 1 : t[i] = s[i]
  BY <1>1, <1>5, <1>7
<1> QED
  BY <1>6, <1>9, <1>10 DEF HasOneMore, n

LEMMA AscendingPairs ==
  ASSUME NEW s \in Seq(Int), Ascending(s), NEW i \in 1 .. Len(s), NEW j \in 1 .. Len(s), i < j
  PROVE  s[i] < s[j]
<1> DEFINE n == Len(s)
           S == {d \in 0 .. j - i - 1 : s[i] < s[i + 1 + d]}
<1>1. n \in Nat /\ \A k \in 1 .. n : s[k] \in Int
  OBVIOUS
<1>2. j - i - 1 \in Nat
  OBVIOUS
<1>3. 0 \in S
  BY <1>1, <1>2 DEF Ascending
<1>4. ASSUME NEW d \in 0 .. (j - i - 1) - 1, d \in S
      PROVE  d + 1 \in S
  <2>1. i + 1 + d \in 1 .. n - 1 /\ (i + 1 + d) + 1 = i + 1 + (d + 1) /\ i + 1 + (d + 1) \in 1 .. n
    BY <1>1
  <2>2. s[i + 1 + d] < s[(i + 1 + d) + 1]
    BY <2>1 DEF Ascending
  <2> QED
    BY <1>1, <1>4, <2>1, <2>2
<1> HIDE DEF S
<1>5. 0 .. j - i - 1 \subseteq S
  BY <1>2, <1>3, <1>4, Climb, Zenon
<1>6. j - i - 1 \in S
  BY <1>2, <1>5
<1>7. i + 1 + (j - i - 1) = j
  OBVIOUS
<1> QED
  BY <1>6, <1>7 DEF S

\* A number between the ends is to be put before the first knot above it.
LEMMA PlaceOf ==
  ASSUME NEW s \in Seq(Int), Ascending(s), Len(s) >= 2, NEW u \in Int,
         s[1] < u, u < s[Len(s)], \A i \in 1 .. Len(s) : s[i] # u
  PROVE  LET p == Cardinality({i \in DOMAIN s : s[i] < u}) + 1 IN
         /\ p \in 2 .. Len(s) /\ s[p - 1] < u /\ u < s[p]
<1> DEFINE n == Len(s)
           above == {i \in 1 .. n : u < s[i]}
           below == {i \in DOMAIN s : s[i] < u}
<1>1. n \in Nat /\ DOMAIN s = 1 .. n /\ \A k \in 1 .. n : s[k] \in Int
  OBVIOUS
<1>2. PICK p \in above : \A x \in above : p <= x
  <2>1. above \in SUBSET Nat /\ above # {}
    BY <1>1
  <2> HIDE DEF above
  <2> QED
    BY <2>1, LeastNumber
<1>3. p \in 2 .. n /\ u < s[p]
  BY <1>1
<1>4. below = 1 .. p - 1
  <2>1. ASSUME NEW i \in 1 .. n, i < p
        PROVE  s[i] < u
    <3>1. i \notin above
      BY <1>2, <1>3, <2>1
    <3> QED
      BY <1>1, <3>1
  <2>2. ASSUME NEW i \in 1 .. n, i >= p
        PROVE  ~ s[i] < u
    <3>1. i = p \/ s[p] < s[i]
      BY <1>3, <2>2, AscendingPairs
    <3> QED
      BY <1>1, <1>3, <3>1
  <2> QED
    BY <1>1, <1>3, <2>1, <2>2
<1>5. Cardinality(below) = p - 1
  <2>1. Cardinality(1 .. p - 1) = p - 1
    <3>1. \A x \in Int : x >= 1 => Cardinality(1 .. x) = x
      BY FS_Interval
    <3>2. p - 1 \in Int /\ p - 1 >= 1
      BY <1>3
    <3> QED
      BY <3>1, <3>2
  <2> QED
    BY <1>4, <2>1
<1>6. s[p - 1] < u
  <2>1. p - 1 \in 1 .. p - 1
    BY <1>3
  <2>2. p - 1 \in below
    BY <1>4, <2>1, Zenon
  <2> QED
    BY <2>2
<1>7. Cardinality(below) + 1 = p
  BY <1>3, <1>5
<1> QED
  BY <1>3, <1>6, <1>7

\* Uniform knots have room where the range has.
AscendTo(s, n, a, b) ==
  s \in Seq(Int) /\ Len(s) = n + 1 /\ Ascending(s) /\ s[1] = a /\ s[n + 1] = b

LEMMA UniformAscends ==
  ASSUME NEW a \in Int, NEW b \in Int, NEW n \in Nat \ {0}, b - a >= n,
         NEW s, s = Linspace(a, b, n + 1)
  PROVE  AscendTo(s, n, a, b)
<1> DEFINE r == b - a
<1>1. (n + 1) - 1 = n /\ r \in Nat /\ r >= n
  OBVIOUS
<1>2. s = [i \in 1 .. n + 1 |-> a + (r * (i - 1)) \div n]
  BY <1>1 DEF Linspace
<1>3. \A x \in Nat : x \div n \in Int /\ n * (x \div n) <= x /\ x < n * (x \div n) + n
  OBVIOUS
<1>4. \A i \in 1 .. n + 1 : r * (i - 1) \in Nat
  BY <1>1
<1> HIDE DEF r
<1>5. s \in Seq(Int) /\ Len(s) = n + 1 /\ \A i \in 1 .. n + 1 : s[i] = a + (r * (i - 1)) \div n
  <2>1. \A i \in 1 .. n + 1 : a + (r * (i - 1)) \div n \in Int
    BY <1>3, <1>4
  <2> QED
    BY <1>2, <2>1
<1>6. ASSUME NEW i \in 1 .. n
      PROVE  s[i] < s[i + 1]
  <2> DEFINE x == r * (i - 1)
             y == r * i
  <2>1. x \in Nat /\ y \in Nat /\ y = x + r
    BY <1>1
  <2>2. /\ s[i] = a + x \div n /\ s[i + 1] = a + y \div n
    <3>1. (i + 1) - 1 = i /\ i + 1 \in 1 .. n + 1 /\ i \in 1 .. n + 1
      OBVIOUS
    <3> QED
      BY <1>5, <3>1
  <2> HIDE DEF x, y
  <2>3. PICK p \in Int, q \in Int : p = x \div n /\ q = y \div n
    BY <1>3, <2>1
  <2>4. n * p <= x /\ y < n * q + n
    BY <1>3, <2>1, <2>3
  <2>5. n * p < n * q
    <3>1. n * p \in Int /\ n * q \in Int
      OBVIOUS
    <3> QED
      BY <1>1, <2>1, <2>4, <3>1
  <2>6. p < q
    <3>1. \A c \in Nat : n * (q + c) = n * q + n * c /\ n * c \in Nat
      OBVIOUS
    <3>2. ~ (p >= q)
      <4>1. SUFFICES ASSUME p >= q
                     PROVE  FALSE
        OBVIOUS
      <4>2. p - q \in Nat /\ q + (p - q) = p
        BY <4>1
      <4>3. n * p = n * q + n * (p - q) /\ n * (p - q) \in Nat
        BY <3>1, <4>2
      <4>4. n * q \in Int
        OBVIOUS
      <4> QED
        BY <2>5, <4>3, <4>4
    <3> QED
      BY <3>2
  <2> QED
    BY <2>2, <2>3, <2>6
<1>7. s[1] = a
  <2>1. r * (1 - 1) = 0 /\ 0 \div n = 0
    BY <1>1
  <2> QED
    BY <1>5, <2>1
<1>8. s[n + 1] = b
  <2>1. (n * r) \div n = r
    <3>1. \A x \in Nat : (n * x) \div n = x
      OBVIOUS
    <3> QED
      BY <1>1, <3>1
  <2>2. r * ((n + 1) - 1) = n * r
    BY <1>1
  <2>3. s[n + 1] = a + r
    BY <1>5, <2>1, <2>2
  <2> QED
    BY <2>3 DEF r
<1>9. Ascending(s)
  BY <1>5, <1>6 DEF Ascending
<1> QED
  BY <1>5, <1>7, <1>8, <1>9 DEF AscendTo

\* The knots of the curve, as they are while one kink after the other goes in.
FitKnots(a, b) ==
  {s \in [degree : {fitter.degree}, at : {{}}, length : {0}, knots : Seq(Int), mults : Seq(Nat)] :
     /\ Len(s.knots) = Len(s.mults) /\ Len(s.knots) >= 2 /\ Ascending(s.knots)
     /\ s.knots[1] = a /\ s.knots[Len(s.knots)] = b
     /\ s.mults[1] = fitter.degree + 1 /\ s.mults[Len(s.knots)] = fitter.degree + 1
     /\ \A i \in 2 .. Len(s.knots) - 1 : s.mults[i] \in 1 .. fitter.degree}

HasKink(s, u) ==
  \E i \in 2 .. Len(s.knots) - 1 : s.mults[i] = fitter.degree /\ Abs(s.knots[i] - u) < KnotTol

\* A knot near to the kink becomes one.
LEMMA KinkAtKnot ==
  ASSUME fitter.degree \in Nat \ {0}, KnotTol \in Nat \ {0},
         NEW a \in Int, NEW b \in Int, NEW s \in FitKnots(a, b),
         NEW u \in Int, u - a >= KnotTol, b - u >= KnotTol,
         {i \in DOMAIN s.knots : Abs(s.knots[i] - u) < KnotTol} # {}
  PROVE  /\ KinkInserted(s, u) \in FitKnots(a, b) /\ HasKink(KinkInserted(s, u), u)
         /\ \A v \in Int : HasKink(s, v) => HasKink(KinkInserted(s, u), v)
<1> DEFINE k == s.knots
           mults == s.mults
           n == Len(k)
           d == fitter.degree
           near == {i \in DOMAIN k : Abs(k[i] - u) < KnotTol}
           i0 == Min(near)
           m == [mults EXCEPT ![i0] = d]
           t == [s EXCEPT !.mults = m]
<1>1. /\ k \in Seq(Int) /\ mults \in Seq(Nat) /\ Len(k) = n /\ Len(mults) = n /\ n \in Nat /\ n >= 2
      /\ Ascending(k) /\ k[1] = a /\ k[n] = b /\ DOMAIN k = 1 .. n /\ DOMAIN mults = 1 .. n
      /\ d \in Nat \ {0} /\ mults[1] = d + 1 /\ mults[n] = d + 1
      /\ \A i \in 2 .. n - 1 : mults[i] \in 1 .. d
  BY DEF FitKnots
<1>3. KinkInserted(s, u) = [s EXCEPT !.mults[i0] = Min({@ + d, d})] /\ near # {}
  BY DEF KinkInserted
<1>4. s \in [degree : {d}, at : {{}}, length : {0}, knots : Seq(Int), mults : Seq(Nat)]
  BY DEF FitKnots
<1>5. t = [degree |-> d, at |-> {}, length |-> 0, knots |-> k, mults |-> m]
  <2>1. t = [s EXCEPT !.mults = m]
    BY Zenon
  <2>2. s.degree = d /\ s.at = {} /\ s.length = 0 /\ s.knots = k
    BY <1>4
  <2> HIDE DEF m, d, k, t
  <2> QED
    BY <1>4, <2>1, <2>2
<1>6. [s EXCEPT !.mults[i0] = Min({@ + d, d})]
        = [s EXCEPT !.mults = [mults EXCEPT ![i0] = Min({mults[i0] + d, d})]]
  BY <1>4
<1> HIDE DEF k, mults, n, d, i0, m, t
<1>2. \A i \in 1 .. n : k[i] \in Int /\ mults[i] \in Nat
  BY <1>1
<1>7. i0 \in near
  <2>1. near \in SUBSET Nat
    BY <1>1
  <2> HIDE DEF near
  <2> QED
    BY <1>3, <2>1, MinIn DEF i0
<1>8. i0 \in 2 .. n - 1 /\ Abs(k[i0] - u) < KnotTol
  <2>1. i0 \in 1 .. n /\ Abs(k[i0] - u) < KnotTol
    BY <1>1, <1>7
  <2>2. i0 # 1 /\ i0 # n
    <3>1. ~ (Abs(a - u) < KnotTol) /\ ~ (Abs(b - u) < KnotTol)
      BY DEF Abs
    <3>2. Abs(k[1] - u) = Abs(a - u) /\ Abs(k[n] - u) = Abs(b - u)
      BY <1>1
    <3> QED
      BY <2>1, <3>1, <3>2, Zenon
  <2> QED
    BY <1>1, <2>1, <2>2
<1> HIDE DEF near
<1>9. Min({mults[i0] + d, d}) = d
  <2> DEFINE x == mults[i0] + d
             S == {x, d}
  <2>1. x \in Nat /\ x >= d /\ d \in Nat
    BY <1>1, <1>2, <1>8
  <2> HIDE DEF x
  <2>2. S \in SUBSET Nat /\ d \in S /\ \A y \in S : d <= y /\ (y <= d => y = d)
    BY <2>1
  <2>3. Min(S) = CHOOSE y \in S : \A z \in S : y <= z
    BY Zenon DEF Min
  <2> HIDE DEF S
  <2>4. Min(S) \in S /\ \A z \in S : Min(S) <= z
    BY <2>2, <2>3
  <2>5. Min(S) = d
    BY <2>2, <2>4
  <2> QED
    BY <2>5 DEF S, x
<1>10. KinkInserted(s, u) = t
  BY <1>3, <1>6, <1>9 DEF t, m
<1>11. /\ m \in Seq(Nat) /\ Len(m) = n
       /\ m[i0] = d /\ \A i \in 1 .. n : i # i0 => m[i] = mults[i]
  BY <1>1, <1>8 DEF m
<1>12. m[1] = d + 1 /\ m[n] = d + 1 /\ \A i \in 2 .. n - 1 : m[i] \in 1 .. d
  <2>1. m[1] = mults[1] /\ m[n] = mults[n]
    BY <1>1, <1>8, <1>11
  <2>2. ASSUME NEW i \in 2 .. n - 1
        PROVE  m[i] \in 1 .. d
    <3>0. n \in Nat /\ d \in Nat \ {0} /\ mults[i] \in 1 .. d
      BY <1>1, Zenon
    <3>1. i \in 1 .. n /\ mults[i] \in 1 .. d /\ d \in 1 .. d
      BY <3>0
    <3>2. m[i] = d \/ m[i] = mults[i]
      BY <1>11, <3>1
    <3> QED
      BY <3>1, <3>2, Zenon
  <2> QED
    BY <1>1, <2>1, <2>2
<1>13. /\ t \in [degree : {d}, at : {{}}, length : {0}, knots : Seq(Int), mults : Seq(Nat)]
       /\ t.knots = k /\ t.mults = m
  BY <1>1, <1>5, <1>11
<1>14. t \in FitKnots(a, b)
  BY <1>1, <1>11, <1>12, <1>13 DEF FitKnots, n, d
<1>15. HasKink(t, u)
  <2>1. m[i0] = d /\ Len(t.knots) = n /\ t.knots[i0] = k[i0] /\ t.mults[i0] = m[i0]
    BY <1>1, <1>11, <1>13, Zenon
  <2>2. i0 \in 2 .. Len(t.knots) - 1 /\ t.mults[i0] = d /\ Abs(t.knots[i0] - u) < KnotTol
    BY <1>8, <2>1
  <2> QED
    BY <2>2, Zenon DEF HasKink, d
<1>16. ASSUME NEW v \in Int, HasKink(s, v)
       PROVE  HasKink(t, v)
  <2>1. PICK i \in 2 .. n - 1 : mults[i] = d /\ Abs(k[i] - v) < KnotTol
    BY <1>16 DEF HasKink, n, k, d, mults
  <2>2. m[i] = d /\ t.knots[i] = k[i] /\ t.mults[i] = d /\ Len(t.knots) = n
    BY <1>1, <1>11, <1>13, <2>1
  <2> QED
    BY <2>1, <2>2 DEF HasKink, d
<1> QED
  BY <1>10, <1>14, <1>15, <1>16

\* Where no knot is near, the kink is a new one.
LEMMA KinkBetweenKnots ==
  ASSUME fitter.degree \in Nat \ {0}, KnotTol \in Nat \ {0},
         NEW a \in Int, NEW b \in Int, NEW s \in FitKnots(a, b),
         NEW u \in Int, u - a >= KnotTol, b - u >= KnotTol,
         {i \in DOMAIN s.knots : Abs(s.knots[i] - u) < KnotTol} = {}
  PROVE  /\ KinkInserted(s, u) \in FitKnots(a, b) /\ HasKink(KinkInserted(s, u), u)
         /\ \A v \in Int : HasKink(s, v) => HasKink(KinkInserted(s, u), v)
<1> DEFINE k == s.knots
           mults == s.mults
           n == Len(k)
           d == fitter.degree
           p == Cardinality({i \in DOMAIN k : k[i] < u}) + 1
           k1 == InsertAt(k, p, u)
           m1 == InsertAt(mults, p, d)
           t == [s EXCEPT !.knots = k1, !.mults = m1]
<1>1. /\ k \in Seq(Int) /\ mults \in Seq(Nat) /\ Len(k) = n /\ Len(mults) = n /\ n \in Nat /\ n >= 2
      /\ Ascending(k) /\ k[1] = a /\ k[n] = b /\ DOMAIN k = 1 .. n
      /\ d \in Nat \ {0} /\ mults[1] = d + 1 /\ mults[n] = d + 1
      /\ \A i \in 2 .. n - 1 : mults[i] \in 1 .. d
  BY DEF FitKnots
<1>2. s \in [degree : {d}, at : {{}}, length : {0}, knots : Seq(Int), mults : Seq(Nat)]
  BY DEF FitKnots
<1>3. KinkInserted(s, u) = t
  BY DEF KinkInserted
<1>4. t = [degree |-> d, at |-> {}, length |-> 0, knots |-> k1, mults |-> m1]
  <2>1. t = [s EXCEPT !.knots = k1, !.mults = m1]
    BY Zenon
  <2>2. s.degree = d /\ s.at = {} /\ s.length = 0
    BY <1>2
  <2> HIDE DEF k1, m1, d, t
  <2> QED
    BY <1>2, <2>1, <2>2
<1>5. \A i \in 1 .. n : ~ (Abs(k[i] - u) < KnotTol)
  BY <1>1
<1> HIDE DEF k, mults, n, d, t
<1>6. \A i \in 1 .. n : k[i] \in Int /\ mults[i] \in Nat
  BY <1>1
<1>7. a < u /\ u < b
  OBVIOUS
<1>8. \A i \in 1 .. n : k[i] # u
  <2>1. Abs(u - u) < KnotTol
    BY DEF Abs
  <2> QED
    BY <1>5, <2>1
<1>9. p \in 2 .. n /\ k[p - 1] < u /\ u < k[p]
  <2> HIDE DEF p
  <2> QED
    BY <1>1, <1>7, <1>8, PlaceOf DEF p
<1> HIDE DEF p
<1>10. p \in 1 .. Len(k) + 1 /\ p \in 1 .. Len(mults) + 1 /\ Len(k) = n /\ Len(mults) = n
  <2>1. n \in Nat /\ Len(k) = n /\ Len(mults) = n
    BY <1>1, Zenon
  <2>2. p \in 1 .. n + 1
    BY <1>9, <2>1
  <2> QED
    BY <2>1, <2>2
<1>11. /\ k1 \in Seq(Int) /\ Len(k1) = n + 1 /\ k1[p] = u
       /\ \A i \in 1 .. p - 1 : k1[i] = k[i]
       /\ \A i \in p .. n : k1[i + 1] = k[i]
  <2>1. k1 = InsertAt(k, p, u)
    BY Zenon
  <2>2. k \in Seq(Int)
    BY <1>1, Zenon
  <2>3. p \in 1 .. Len(k) + 1 /\ u \in Int
    BY <1>10, Zenon
  <2> HIDE DEF k1
  <2> QED
    <3>1. k1 \in Seq(Int) /\ HasOneMore(k1, k, p, u)
      BY <2>1, <2>2, <2>3, OneBetween
    <3> QED
      BY <1>10, <3>1 DEF HasOneMore
<1>12. /\ m1 \in Seq(Nat) /\ Len(m1) = n + 1 /\ m1[p] = d
       /\ \A i \in 1 .. p - 1 : m1[i] = mults[i]
       /\ \A i \in p .. n : m1[i + 1] = mults[i]
  <2>1. d \in Nat /\ mults \in Seq(Nat)
    BY <1>1
  <2>2. m1 = InsertAt(mults, p, d)
    BY Zenon
  <2> HIDE DEF m1
  <2> QED
    <3>1. m1 \in Seq(Nat) /\ HasOneMore(m1, mults, p, d)
      BY <1>10, <2>1, <2>2, OneBetween
    <3> QED
      BY <1>10, <3>1 DEF HasOneMore
<1> HIDE DEF k1, m1
<1>13. t.knots = k1 /\ t.mults = m1
       /\ t \in [degree : {d}, at : {{}}, length : {0}, knots : Seq(Int), mults : Seq(Nat)]
  BY <1>4, <1>11, <1>12
<1>14. n \in Nat /\ n >= 2 /\ d \in Nat \ {0}
  BY <1>1
<1>15. ASSUME NEW i \in 1 .. n
       PROVE  k1[i] < k1[i + 1]
  <2>1. \A j \in 1 .. n - 1 : k[j] < k[j + 1]
    BY <1>1 DEF Ascending
  <2>2. CASE i < p - 1
    <3>1. i \in 1 .. p - 1 /\ i + 1 \in 1 .. p - 1 /\ i \in 1 .. n - 1
      BY <1>9, <1>14, <2>2
    <3> QED
      BY <1>11, <2>1, <3>1
  <2>3. CASE i = p - 1
    <3>1. i \in 1 .. p - 1 /\ i + 1 = p
      BY <1>9, <2>3
    <3> QED
      BY <1>9, <1>11, <2>3, <3>1
  <2>4. CASE i = p
    <3>1. p \in p .. n
      BY <1>9
    <3> QED
      BY <1>9, <1>11, <2>4, <3>1
  <2>5. CASE i > p
    <3>1. i - 1 \in p .. n /\ (i - 1) + 1 = i /\ i \in p .. n /\ i - 1 \in 1 .. n - 1
      BY <1>9, <1>14, <2>5
    <3>2. k1[(i - 1) + 1] = k[i - 1] /\ k1[i + 1] = k[i]
      BY <1>11, <3>1
    <3>3. k[i - 1] < k[(i - 1) + 1]
      BY <2>1, <3>1
    <3> QED
      BY <3>1, <3>2, <3>3
  <2> QED
    BY <1>9, <2>2, <2>3, <2>4, <2>5
<1>16. Ascending(k1)
  <2>1. Len(k1) - 1 = n
    BY <1>11, <1>14
  <2> QED
    BY <1>15, <2>1 DEF Ascending
<1>17. 1 \in 1 .. p - 1 /\ n \in p .. n
  BY <1>9, <1>14
<1>18. k1[1] = a /\ k1[n + 1] = b /\ m1[1] = d + 1 /\ m1[n + 1] = d + 1
  BY <1>1, <1>11, <1>12, <1>17, Zenon
<1>19. ASSUME NEW i \in 2 .. n
       PROVE  m1[i] \in 1 .. d
  <2>1. \A j \in 2 .. n - 1 : mults[j] \in 1 .. d
    BY <1>1
  <2>2. CASE i < p
    <3>1. i \in 1 .. p - 1 /\ i \in 2 .. n - 1
      BY <1>9, <1>14, <2>2
    <3> QED
      BY <1>12, <2>1, <3>1
  <2>3. CASE i = p
    BY <1>12, <1>14, <2>3
  <2>4. CASE i > p
    <3>1. i - 1 \in p .. n /\ (i - 1) + 1 = i /\ i - 1 \in 2 .. n - 1
      BY <1>9, <1>14, <2>4
    <3>2. m1[(i - 1) + 1] = mults[i - 1]
      BY <1>12, <3>1
    <3> QED
      BY <2>1, <3>1, <3>2
  <2> QED
    BY <1>9, <2>2, <2>3, <2>4
<1>20. t \in FitKnots(a, b)
  <2>1. (n + 1) - 1 = n /\ n + 1 >= 2
    BY <1>14
  <2> QED
    BY <1>11, <1>12, <1>13, <1>16, <1>18, <1>19, <2>1 DEF FitKnots, d
<1>21. Len(t.knots) = n + 1 /\ (n + 1) - 1 = n
  BY <1>11, <1>13, <1>14
<1>22. HasKink(t, u)
  <2>1. Abs(u - u) < KnotTol
    BY DEF Abs
  <2>2. p \in 2 .. Len(t.knots) - 1 /\ t.mults[p] = d /\ Abs(t.knots[p] - u) < KnotTol
    BY <1>9, <1>11, <1>12, <1>13, <1>21, <2>1
  <2> QED
    BY <2>2, Zenon DEF HasKink, d
<1>23. ASSUME NEW v \in Int, HasKink(s, v)
       PROVE  HasKink(t, v)
  <2>1. PICK i \in 2 .. n - 1 : mults[i] = d /\ Abs(k[i] - v) < KnotTol
    BY <1>23 DEF HasKink, n, k, d, mults
  <2>2. CASE i < p
    <3>1. i \in 1 .. p - 1 /\ i \in 2 .. n
      BY <1>9, <1>14, <2>1, <2>2
    <3>2. i \in 2 .. Len(t.knots) - 1 /\ t.mults[i] = d /\ Abs(t.knots[i] - v) < KnotTol
      BY <1>11, <1>12, <1>13, <1>21, <2>1, <3>1
    <3> QED
      BY <3>2, Zenon DEF HasKink, d
  <2>3. CASE i >= p
    <3>1. i \in p .. n /\ i + 1 \in 2 .. n
      BY <1>9, <1>14, <2>1, <2>3
    <3>2. i + 1 \in 2 .. Len(t.knots) - 1 /\ t.mults[i + 1] = d /\ Abs(t.knots[i + 1] - v) < KnotTol
      BY <1>11, <1>12, <1>13, <1>21, <2>1, <3>1
    <3> QED
      BY <3>2, Zenon DEF HasKink, d
  <2> QED
    BY <1>9, <2>1, <2>2, <2>3
<1> QED
  BY <1>3, <1>20, <1>22, <1>23

LEMMA KinkGoesIn ==
  ASSUME fitter.degree \in Nat \ {0}, KnotTol \in Nat \ {0},
         NEW a \in Int, NEW b \in Int, NEW s \in FitKnots(a, b),
         NEW u \in Int, u - a >= KnotTol, b - u >= KnotTol
  PROVE  /\ KinkInserted(s, u) \in FitKnots(a, b) /\ HasKink(KinkInserted(s, u), u)
         /\ \A v \in Int : HasKink(s, v) => HasKink(KinkInserted(s, u), v)
<1> DEFINE near == {i \in DOMAIN s.knots : Abs(s.knots[i] - u) < KnotTol}
<1>1. CASE near # {}
  BY <1>1, KinkAtKnot
<1>2. CASE near = {}
  BY <1>2, KinkBetweenKnots
<1> QED
  BY <1>1, <1>2

LEMMA OfFits ==
  ASSUME fitter \in Fits
  PROVE  LET n == Len(fitter.points)
             u == fitter.initial
         IN  /\ n \in Nat \ {0, 1} /\ fitter.degree \in Nat \ {0} /\ fitter.ncp \in Nat
             /\ u \in Seq(Int) /\ Len(u) = n
             /\ u[1] \in Int /\ u[n] \in Int /\ u[n] - u[1] >= fitter.ncp - fitter.degree
             /\ \A i \in 2 .. n - 1 : u[i] \in Int /\ u[i] - u[1] >= KnotTol /\ u[n] - u[i] >= KnotTol
             /\ KnotTol \in Nat \ {0} /\ MaxIter \in Nat \ {0}
             /\ (fitter.closed => fitter.points[1] = fitter.points[n])
BY FitsAssumption DEF IsFit

KnotsOf(d, knots, m) ==
  [degree |-> d, at |-> {}, length |-> 0, knots |-> knots, mults |-> m]

HasKnots(s, d, knots, m) ==
  /\ s \in [degree : {d}, at : {{}}, length : {0}, knots : Seq(Int), mults : Seq(Nat)]
  /\ s.knots = knots /\ s.mults = m

LEMMA KnotRecord ==
  ASSUME NEW d, NEW knots \in Seq(Int), NEW m \in Seq(Nat), NEW s, s = KnotsOf(d, knots, m)
  PROVE  HasKnots(s, d, knots, m)
BY DEF KnotsOf, HasKnots

\* The uniform knots.
LEMMA UniformIsFit ==
  ASSUME fitter \in Fits, fitter.ncp >= fitter.degree + 1, NEW a, NEW b,
         a = fitter.initial[1], b = fitter.initial[Len(fitter.initial)],
         NEW n, n = fitter.ncp - fitter.degree,
         NEW s, s = [degree |-> fitter.degree, at |-> {}, length |-> 0,
                     knots |-> Linspace(a, b, n + 1),
                     mults |-> [k \in 1 .. n + 1 |-> IF k \in {1, n + 1} THEN fitter.degree + 1 ELSE 1]]
  PROVE  s \in FitKnots(a, b)
<1> DEFINE d == fitter.degree
           m == [k \in 1 .. n + 1 |-> IF k \in {1, n + 1} THEN d + 1 ELSE 1]
           knots == Linspace(a, b, n + 1)
<1>1. /\ a \in Int /\ b \in Int /\ n \in Nat \ {0} /\ b - a >= n /\ d \in Nat \ {0}
  <2>1. /\ Len(fitter.initial) = Len(fitter.points)
        /\ fitter.degree \in Nat \ {0} /\ fitter.ncp \in Nat
        /\ fitter.initial[1] \in Int /\ fitter.initial[Len(fitter.points)] \in Int
        /\ fitter.initial[Len(fitter.points)] - fitter.initial[1] >= fitter.ncp - fitter.degree
    BY OfFits
  <2>2. a = fitter.initial[1] /\ b = fitter.initial[Len(fitter.points)]
    BY <2>1
  <2>3. a \in Int /\ b \in Int /\ d \in Nat \ {0}
    BY <2>1, <2>2
  <2>4. fitter.ncp \in Int /\ fitter.degree \in Int
    BY <2>1
  <2>5. \A x, y \in Int : x >= y + 1 => x - y \in Nat \ {0}
    OBVIOUS
  <2>6. fitter.ncp - fitter.degree \in Nat \ {0}
    BY <2>4, <2>5, Zenon
  <2>7. n \in Nat \ {0}
    BY <2>6, Zenon
  <2> QED
    BY <2>1, <2>2, <2>3, <2>7
<1>2. s = KnotsOf(d, knots, m)
  BY Zenon DEF KnotsOf
<1>3. /\ m \in Seq(Nat) /\ Len(m) = n + 1 /\ m[1] = d + 1 /\ m[n + 1] = d + 1
      /\ \A k \in 2 .. n : m[k] = 1
  <2> HIDE DEF d
  <2>1. \A k \in 1 .. n + 1 : m[k] = IF k \in {1, n + 1} THEN d + 1 ELSE 1
    OBVIOUS
  <2>2. d + 1 \in Nat /\ n \in Nat /\ n >= 1
    BY <1>1
  <2>3. m \in Seq(Nat) /\ Len(m) = n + 1
    BY <2>2
  <2> HIDE DEF m
  <2> QED
    BY <2>1, <2>2, <2>3
<1> HIDE DEF d, m, knots
<1>4. /\ knots \in Seq(Int) /\ Len(knots) = n + 1 /\ Ascending(knots)
      /\ knots[1] = a /\ knots[n + 1] = b
  <2>1. knots = Linspace(a, b, n + 1)
    BY DEF knots
  <2>2. a \in Int /\ b \in Int /\ n \in Nat \ {0} /\ b - a >= n
    BY <1>1
  <2>3. AscendTo(knots, n, a, b)
    BY <2>1, <2>2, UniformAscends
  <2> QED
    BY <2>3 DEF AscendTo
<1>5. HasKnots(s, d, knots, m)
  <2>1. m \in Seq(Nat) /\ knots \in Seq(Int)
    BY <1>3, <1>4
  <2> QED
    BY <1>2, <2>1, KnotRecord, Zenon
<1>6. n + 1 >= 2 /\ (n + 1) - 1 = n /\ 1 \in 1 .. d
  BY <1>1
<1> QED
  <2>1. /\ s \in [degree : {fitter.degree}, at : {{}}, length : {0}, knots : Seq(Int), mults : Seq(Nat)]
        /\ s.knots = knots /\ s.mults = m
    BY <1>5 DEF HasKnots, d
  <2>2. Len(s.knots) = n + 1 /\ Len(s.mults) = n + 1 /\ Ascending(s.knots)
        /\ s.knots[1] = a /\ s.knots[n + 1] = b
    BY <1>3, <1>4, <2>1
  <2>3. /\ s.mults[1] = fitter.degree + 1 /\ s.mults[n + 1] = fitter.degree + 1
        /\ \A i \in 2 .. (n + 1) - 1 : s.mults[i] \in 1 .. fitter.degree
    BY <1>3, <1>6, <2>1 DEF d
  <2>4. Len(s.knots) >= 2 /\ Len(s.mults) = Len(s.knots)
    BY <1>6, <2>2
  <2>5. s.knots[Len(s.knots)] = b /\ s.mults[Len(s.knots)] = fitter.degree + 1
    BY <2>2, <2>3, Zenon
  <2>6. \A i \in 2 .. Len(s.knots) - 1 : s.mults[i] \in 1 .. fitter.degree
    BY <2>2, <2>3, Zenon
  <2> QED
    BY <2>1, <2>2, <2>3, <2>4, <2>5, <2>6, Zenon DEF FitKnots

LEMMA PlaceBefore ==
  \A x \in Nat : \A y \in 1 .. x : y - 1 \in 0 .. x
OBVIOUS

LEMMA KnotsAreFit ==
  ASSUME fitter \in Fits, fitter.ncp >= fitter.degree + 1,
         kinkPoints \in Seq(1 .. Len(fitter.points) - 2), NEW a, NEW b,
         a = fitter.initial[1], b = fitter.initial[Len(fitter.initial)]
  PROVE  /\ computeKnots(fitter.initial) \in FitKnots(a, b)
         /\ \A j \in 1 .. Len(kinkPoints) :
              HasKink(computeKnots(fitter.initial), fitter.initial[kinkPoints[j] + 1])
<1> DEFINE u == fitter.initial
           size == Len(kinkPoints)
           S == FitKnots(a, b)
           n == fitter.ncp - fitter.degree
           uniform == [degree |-> fitter.degree, at |-> {}, length |-> 0,
                       knots |-> Linspace(Head(u), Last(u), n + 1),
                       mults |-> [k \in 1 .. n + 1 |-> IF k \in {1, n + 1} THEN fitter.degree + 1 ELSE 1]]
           Kink(k) == u[kinkPoints[k] + 1]
           step == [k \in 1 .. size |-> [s \in S |-> KinkInserted(s, Kink(k))]]
           Runs(h) == h = [k \in 0 .. size |-> IF k = 0 THEN uniform
                                               ELSE KinkInserted(h[k - 1], Kink(k))]
           with == CHOOSE h : Runs(h)
<1>1. computeKnots(u) = with[size]
  BY DEF computeKnots
<1>2. /\ size \in Nat /\ a \in Int /\ b \in Int
      /\ fitter.degree \in Nat \ {0} /\ KnotTol \in Nat \ {0}
  BY OfFits
<1>3. \A k \in 1 .. size : Kink(k) \in Int /\ Kink(k) - a >= KnotTol /\ b - Kink(k) >= KnotTol
  <2> SUFFICES ASSUME NEW k \in 1 .. size
               PROVE  Kink(k) \in Int /\ Kink(k) - a >= KnotTol /\ b - Kink(k) >= KnotTol
    OBVIOUS
  <2>1. kinkPoints[k] \in 1 .. Len(fitter.points) - 2
    OBVIOUS
  <2>2. Len(fitter.points) \in Nat /\ Len(u) = Len(fitter.points)
    BY OfFits
  <2>3. kinkPoints[k] + 1 \in 2 .. Len(fitter.points) - 1
    BY <2>1, <2>2
  <2> QED
    BY <2>2, <2>3, OfFits
<1>4. uniform \in S
  <2>1. Head(u) = a /\ Last(u) = b
    BY OfFits DEF Last
  <2> HIDE DEF n, S, u
  <2>2. uniform = [degree |-> fitter.degree, at |-> {}, length |-> 0,
                   knots |-> Linspace(a, b, n + 1),
                   mults |-> [k \in 1 .. n + 1 |-> IF k \in {1, n + 1} THEN fitter.degree + 1 ELSE 1]]
    BY <2>1, Zenon
  <2> HIDE DEF uniform
  <2>3. n = fitter.ncp - fitter.degree
    BY DEF n
  <2> QED
    BY <2>2, <2>3, UniformIsFit DEF S
<1> HIDE DEF uniform, S, u, size, Kink
<1>5. \A k \in 1 .. size, s \in S :
         /\ KinkInserted(s, Kink(k)) \in S /\ HasKink(KinkInserted(s, Kink(k)), Kink(k))
         /\ \A v \in Int : HasKink(s, v) => HasKink(KinkInserted(s, Kink(k)), v)
  <2> SUFFICES ASSUME NEW k \in 1 .. size, NEW s \in FitKnots(a, b)
               PROVE  /\ KinkInserted(s, Kink(k)) \in FitKnots(a, b)
                      /\ HasKink(KinkInserted(s, Kink(k)), Kink(k))
                      /\ \A v \in Int : HasKink(s, v) => HasKink(KinkInserted(s, Kink(k)), v)
    BY DEF S
  <2>1. PICK x : x = Kink(k)
    OBVIOUS
  <2>2. x \in Int /\ x - a >= KnotTol /\ b - x >= KnotTol
    BY <1>3, <2>1
  <2>3. /\ KinkInserted(s, x) \in FitKnots(a, b) /\ HasKink(KinkInserted(s, x), x)
        /\ \A v \in Int : HasKink(s, v) => HasKink(KinkInserted(s, x), v)
    BY <1>2, <2>2, KinkGoesIn
  <2> QED
    BY <2>1, <2>3
<1>6. step \in [1 .. size -> [S -> S]] /\ \A k \in 1 .. size, s \in S : step[k][s] = KinkInserted(s, Kink(k))
  BY <1>5
<1> HIDE DEF step
<1>7. PICK h : LoopsThrough(h, size, S, uniform, step)
  BY <1>2, <1>4, <1>6, LoopRuns, Zenon
<1>8. Runs(h)
  <2>1. /\ h \in [0 .. size -> S] /\ h[0] = uniform
        /\ \A k \in 1 .. size : h[k] = step[k][h[k - 1]]
    BY <1>7 DEF LoopsThrough
  <2>2. ASSUME NEW k \in 1 .. size
        PROVE  h[k] = KinkInserted(h[k - 1], Kink(k))
    <3>1. k - 1 \in 0 .. size
      BY <1>2, PlaceBefore, Zenon
    <3>2. h[k - 1] \in S
      BY <2>1, <3>1
    <3> QED
      BY <1>6, <2>1, <3>2
  <2>3. \A k \in 0 .. size : h[k] = IF k = 0 THEN uniform ELSE KinkInserted(h[k - 1], Kink(k))
    BY <1>2, <2>1, <2>2
  <2>4. h = [k \in 0 .. size |-> h[k]]
    BY <2>1
  <2> QED
    BY <2>3, <2>4
<1>9. Runs(with)
  <2> HIDE DEF Runs
  <2> QED
    BY <1>8
<1>10. \A k \in 0 .. size : with[k] = IF k = 0 THEN uniform ELSE KinkInserted(with[k - 1], Kink(k))
  <2> HIDE DEF with
  <2> QED
    BY <1>9
<1> HIDE DEF with, Runs
<1> DEFINE T == {k \in 0 .. size : with[k] \in S /\ \A j \in 1 .. k : HasKink(with[k], Kink(j))}
<1>11. 0 \in T
  BY <1>2, <1>4, <1>10
<1>12. ASSUME NEW k \in 0 .. size - 1, k \in T
       PROVE  k + 1 \in T
  <2>1. k + 1 \in 1 .. size /\ k + 1 \in 0 .. size /\ k + 1 # 0 /\ (k + 1) - 1 = k
    BY <1>2
  <2>2. with[k + 1] = KinkInserted(with[k], Kink(k + 1)) /\ with[k] \in S
    BY <1>10, <1>12, <2>1
  <2>3. with[k + 1] \in S /\ HasKink(with[k + 1], Kink(k + 1))
    BY <1>5, <2>1, <2>2
  <2>4. ASSUME NEW j \in 1 .. k
        PROVE  HasKink(with[k + 1], Kink(j))
    <3>1. j \in 1 .. size /\ Kink(j) \in Int
      BY <1>2, <1>3
    <3>2. HasKink(with[k], Kink(j))
      BY <1>12
    <3> QED
      BY <1>5, <2>1, <2>2, <3>1, <3>2
  <2>5. \A j \in 1 .. k + 1 : j \in 1 .. k \/ j = k + 1
    OBVIOUS
  <2> QED
    BY <2>1, <2>3, <2>4, <2>5
<1> HIDE DEF T
<1>13. 0 .. size \subseteq T
  BY <1>2, <1>11, <1>12, Climb, Zenon
<1>14. size \in T
  BY <1>2, <1>13
<1>15. with[size] \in S /\ \A j \in 1 .. size : HasKink(with[size], Kink(j))
  BY <1>14 DEF T
<1> QED
  BY <1>1, <1>15 DEF S, Kink, u, size

-----------------------------------------------------------------------------
(***************************************************************************)
(* BSplineApproxInterp: the invariant.  A point is approximated or         *)
(* interpolated, never both, so that the rounds of a fitting move no       *)
(* parameter of a point that is interpolated; FitCurve moves none at all.  *)
(***************************************************************************)
KnotsDone(knots) ==
  /\ knots \in FitKnots(fitter.initial[1], fitter.initial[Len(fitter.initial)])
  /\ \A j \in 1 .. Len(kinkPoints) : HasKink(knots, fitter.initial[kinkPoints[j] + 1])
  /\ NbPoles(knots) >= 2

AreParams(params, maxIter) ==
  /\ params \in Seq(Int) /\ Len(params) = Len(fitter.points)
  /\ \A i \in interpolated : params[i + 1] = fitter.initial[i + 1]
  /\ maxIter = 0 => params = fitter.initial

Fitting(knots, params, error, oldError, iteration, maxIter) ==
  [at |-> "fit", knots |-> knots, params |-> params, error |-> error, oldError |-> oldError,
   iteration |-> iteration, maxIter |-> maxIter]

FitRuns ==
  \E knots, params, error, oldError, iteration, maxIter :
    /\ fitting = Fitting(knots, params, error, oldError, iteration, maxIter)
    /\ KnotsDone(knots) /\ AreParams(params, maxIter) /\ iteration \in Nat

PointsInv ==
  /\ approximated \subseteq 0 .. Len(fitter.points) - 1
  /\ interpolated \subseteq 0 .. Len(fitter.points) - 1
  /\ approximated \cap interpolated = {}
  /\ kinkPoints \in Seq(1 .. Len(fitter.points) - 2)

FitInv ==
  /\ fitter \in Fits => PointsInv /\ (fitting = Idle \/ FitRuns)
  /\ FitsInterpolate /\ FitsClose

LEMMA KnotsStayDone ==
  ASSUME fitter' = fitter, kinkPoints' = kinkPoints, NEW knots, KnotsDone(knots)
  PROVE  KnotsDone(knots)'
BY DEF KnotsDone, FitKnots, HasKink

LEMMA NbPolesIsInt ==
  ASSUME fitter.degree \in Nat, NEW a, NEW b, NEW knots \in FitKnots(a, b)
  PROVE  NbPoles(knots) \in Int
<1>1. knots.mults \in Seq(Int) /\ knots.degree \in Int
  BY DEF FitKnots
<1>2. Sum(knots.mults) \in Int
  BY <1>1, SumIsInt
<1> QED
  BY <1>1, <1>2 DEF NbPoles

LEMMA InterpolatePointKeeps ==
  ASSUME FitInv, InterpolatePoint
  PROVE  FitInv'
<1>1. /\ fitter \in Fits /\ fitter' = fitter /\ fitting' = fitting /\ fitting = Idle
      /\ fitted' \in {NotFitted, FitThrew} /\ PointsInv
  BY DEF InterpolatePoint, FitInv
<1>2. Len(fitter.points) \in Nat
  BY <1>1, OfFits
<1>3. PICK i \in 0 .. Len(fitter.points) - 1, withKink \in BOOLEAN :
        /\ withKink => i \in 1 .. Len(fitter.points) - 2
        /\ \/ /\ approximated' = approximated \ {i}
              /\ interpolated' = interpolated \cup {i}
              /\ kinkPoints' = IF withKink THEN Append(kinkPoints, i) ELSE kinkPoints
           \/ UNCHANGED <<approximated, interpolated, kinkPoints>>
  BY DEF InterpolatePoint
<1>4. kinkPoints' \in Seq(1 .. Len(fitter.points) - 2)
  <2> DEFINE S == 1 .. Len(fitter.points) - 2
  <2>1. kinkPoints \in Seq(S)
    BY <1>1 DEF PointsInv
  <2>2. kinkPoints' = kinkPoints \/ (i \in S /\ kinkPoints' = Append(kinkPoints, i))
    BY <1>3
  <2> HIDE DEF S
  <2>3. kinkPoints' \in Seq(S)
    BY <2>1, <2>2
  <2> QED
    BY <2>3 DEF S
<1>5. PointsInv'
  BY <1>1, <1>3, <1>4 DEF PointsInv
<1> QED
  BY <1>1, <1>5 DEF FitInv, FitsInterpolate, FitsClose, NotFitted, FitThrew

LEMMA FitKeeps ==
  ASSUME FitInv, Fit
  PROVE  FitInv'
<1>1. /\ fitter \in Fits /\ UNCHANGED <<fitter, approximated, interpolated, kinkPoints>>
      /\ PointsInv /\ fitted' \in {NotFitted, FitThrew}
  BY DEF Fit, FitFails, FitInv
<1>2. FitsInterpolate' /\ FitsClose' /\ PointsInv'
  BY <1>1 DEF FitsInterpolate, FitsClose, NotFitted, FitThrew, PointsInv
<1>3. CASE FitFails
  BY <1>1, <1>2, <1>3 DEF FitFails, FitInv
<1>4. CASE ~ FitFails
  <2> DEFINE knots == computeKnots(fitter.initial)
  <2>1. PICK maxIter \in {0, MaxIter}, error \in PossibleErrors :
          /\ ~ (fitter.ncp < fitter.degree + 1) /\ CanSolve(knots)
          /\ fitting' = Fitting(knots, fitter.initial, error, 2 * error, 0, maxIter)
    BY <1>4, Zenon DEF Fit, Fitting
  <2>2. /\ fitter.degree \in Nat \ {0} /\ fitter.ncp \in Nat
        /\ fitter.initial \in Seq(Int) /\ Len(fitter.initial) = Len(fitter.points)
    BY <1>1, OfFits
  <2>3. fitter.ncp >= fitter.degree + 1
    BY <2>1, <2>2
  <2> HIDE DEF knots
  <2>4. PICK a, b : a = fitter.initial[1] /\ b = fitter.initial[Len(fitter.initial)]
    OBVIOUS
  <2>5. /\ knots \in FitKnots(a, b)
        /\ \A j \in 1 .. Len(kinkPoints) : HasKink(knots, fitter.initial[kinkPoints[j] + 1])
    BY <1>1, <2>3, <2>4, KnotsAreFit DEF PointsInv, knots
  <2>6. NbPoles(knots) >= 2
    <3>1. NbPoles(knots) \in Int
      BY <2>2, <2>5, NbPolesIsInt
    <3>2. NbContinuity \in Nat
      BY DEF NbContinuity
    <3>3. NbPoles(knots) >= fitter.degree + 1 + NbContinuity
      BY <2>1 DEF CanSolve
    <3> QED
      BY <2>2, <3>1, <3>2, <3>3
  <2>7. KnotsDone(knots)
    BY <2>4, <2>5, <2>6 DEF KnotsDone
  <2>8. AreParams(fitter.initial, maxIter)'
    BY <1>1, <2>2 DEF AreParams
  <2>9. PICK k : k = knots
    OBVIOUS
  <2>10. KnotsDone(k)'
    BY <1>1, <2>7, <2>9, KnotsStayDone
  <2>11. FitRuns'
    <3>1. PICK params : params = fitter.initial
      OBVIOUS
    <3>2. /\ fitting' = Fitting(k, params, error, 2 * error, 0, maxIter)
          /\ AreParams(params, maxIter)' /\ 0 \in Nat
      BY <1>1, <2>1, <2>8, <2>9, <3>1 DEF AreParams
    <3> QED
      BY <2>10, <3>2 DEF FitRuns, Fitting
  <2> QED
    BY <1>2, <2>11 DEF FitInv
<1> QED
  BY <1>3, <1>4

LEMMA OptimizeKeeps ==
  ASSUME FitInv, Optimize, fitter \in Fits
  PROVE  FitInv'
<1>1. /\ UNCHANGED <<fitter, approximated, interpolated, kinkPoints, fitted>>
      /\ PointsInv /\ fitting.at = "fit" /\ GoesOn
  BY DEF Optimize, FitInv
<1>2. FitsInterpolate' /\ FitsClose' /\ PointsInv'
  BY <1>1 DEF FitsInterpolate, FitsClose, PointsInv, FitInv, EndsInterpolated
<1>3. FitRuns
  BY <1>1 DEF FitInv, Idle
<1>4. PICK knots, params, error, oldError, iteration, maxIter :
        /\ fitting = Fitting(knots, params, error, oldError, iteration, maxIter)
        /\ KnotsDone(knots) /\ AreParams(params, maxIter) /\ iteration \in Nat
  BY <1>3 DEF FitRuns
<1>5. PICK steps \in [0 .. Len(fitter.points) - 1 -> {0, 1}], error1 \in PossibleErrors :
        fitting' = [fitting EXCEPT !.params = [k \in DOMAIN @ |-> Projected(k - 1, steps[k - 1])],
                                   !.error = error1, !.oldError = fitting.error, !.iteration = @ + 1]
  BY DEF Optimize
<1>6. /\ fitting.params = params /\ fitting.error = error
      /\ fitting.iteration = iteration /\ fitting.maxIter = maxIter
  BY <1>4 DEF Fitting
<1> DEFINE moved == [k \in DOMAIN params |-> Projected(k - 1, steps[k - 1])]
<1>7. fitting' = Fitting(knots, moved, error1, error, iteration + 1, maxIter)
  <2>1. fitting' = [fitting EXCEPT !.params = moved, !.error = error1, !.oldError = error,
                                   !.iteration = iteration + 1]
    <3>1. fitting' = [fitting EXCEPT !.params = [k \in DOMAIN fitting.params |-> Projected(k - 1, steps[k - 1])],
                                     !.error = error1, !.oldError = fitting.error,
                                     !.iteration = fitting.iteration + 1]
      BY <1>5, Zenon
    <3> QED
      BY <1>6, <3>1, Zenon
  <2> HIDE DEF moved
  <2> QED
    BY <1>4, <2>1 DEF Fitting
<1>8. maxIter # 0
  BY <1>1, <1>4, <1>6 DEF GoesOn
<1>9. /\ Len(fitter.points) \in Nat /\ params \in Seq(Int) /\ Len(params) = Len(fitter.points)
      /\ DOMAIN params = 1 .. Len(fitter.points)
      /\ \A i \in interpolated : params[i + 1] = fitter.initial[i + 1]
  BY <1>4, OfFits DEF AreParams
<1>10. ASSUME NEW k \in 1 .. Len(fitter.points)
       PROVE  /\ Projected(k - 1, steps[k - 1]) \in Int
              /\ k - 1 \in interpolated => Projected(k - 1, steps[k - 1]) = params[k]
  <2>1. (k - 1) + 1 = k /\ params[k] \in Int
    BY <1>9
  <2>2. k - 1 \in 0 .. Len(fitter.points) - 1 /\ steps[k - 1] \in {0, 1}
    BY <1>9
  <2>3. params[k] + steps[k - 1] \in Int
    BY <2>1, <2>2
  <2>4. Projected(k - 1, steps[k - 1]) \in {params[k], params[k] + steps[k - 1]}
    BY <1>6, <2>1 DEF Projected
  <2>5. k - 1 \in interpolated => Projected(k - 1, steps[k - 1]) = params[k]
    BY <1>1, <1>6, <2>1 DEF Projected, IsOptimized, PointsInv
  <2> QED
    BY <2>1, <2>3, <2>4, <2>5
<1>11. /\ moved \in Seq(Int) /\ Len(moved) = Len(fitter.points)
       /\ \A k \in 1 .. Len(fitter.points) : moved[k] = Projected(k - 1, steps[k - 1])
  BY <1>9, <1>10
<1> HIDE DEF moved
<1>12. \A i \in interpolated : moved[i + 1] = fitter.initial[i + 1]
  <2> SUFFICES ASSUME NEW i \in interpolated
               PROVE  moved[i + 1] = fitter.initial[i + 1]
    OBVIOUS
  <2>1. i \in 0 .. Len(fitter.points) - 1
    BY <1>1 DEF PointsInv
  <2>2. i + 1 \in 1 .. Len(fitter.points) /\ (i + 1) - 1 = i
    BY <1>9, <2>1
  <2> QED
    BY <1>9, <1>10, <1>11, <2>2
<1>13. AreParams(moved, maxIter)
  BY <1>8, <1>11, <1>12 DEF AreParams
<1>14. PICK p : p = moved
  OBVIOUS
<1>15. KnotsDone(knots)' /\ AreParams(p, maxIter)'
  BY <1>1, <1>4, <1>13, <1>14, KnotsStayDone DEF AreParams
<1>16. fitting' = Fitting(knots, p, error1, error, iteration + 1, maxIter) /\ iteration + 1 \in Nat
  BY <1>4, <1>7, <1>14
<1>17. FitRuns'
  BY <1>15, <1>16 DEF FitRuns, Fitting
<1> QED
  BY <1>2, <1>17 DEF FitInv

LEMMA SolvedPasses ==
  ASSUME NEW c, NEW x, NEW u, <<x, u>> \in c.at
  PROVE  x \in PointAt(c, u)
<1> DEFINE e == <<x, u>>
<1>1. e \in c.at /\ e[1] = x /\ e[2] = u
  OBVIOUS
<1> HIDE DEF e
<1> QED
  BY <1>1 DEF PointAt

\* What a fitting that ends has found.
LEMMA SolvedIsGood ==
  ASSUME fitter \in Fits, PointsInv, NEW knots, KnotsDone(knots),
         NEW params, NEW maxIter, AreParams(params, maxIter),
         NEW c, c = Solved(knots, params)
  PROVE  /\ IsSpline(c)
         /\ FirstParameter(c) = Head(fitter.initial) /\ LastParameter(c) = Last(fitter.initial)
         /\ \A i \in interpolated : fitter.points[i + 1] \in PointAt(c, fitter.initial[i + 1])
         /\ \A k \in DOMAIN kinkPoints :
              \E u \in getKinkParameters(c) : Abs(u - fitter.initial[kinkPoints[k] + 1]) < KnotTol
         /\ fitter.closed /\ (maxIter = 0 \/ EndsInterpolated) => ClosesAtEnds(c)
<1> DEFINE n == Len(fitter.points)
           u == fitter.initial
           m == Len(knots.knots)
           passed == {<<fitter.points[i + 1], params[i + 1]>> : i \in interpolated}
           joints == IF NbContinuity = 3
                       THEN {<<"joint", Head(params)>>, <<"joint", Last(params)>>} ELSE {}
<1>1. /\ n \in Nat \ {0, 1} /\ u \in Seq(Int) /\ Len(u) = n
      /\ fitter.degree \in Nat \ {0}
      /\ fitter.closed => fitter.points[1] = fitter.points[n]
  BY OfFits
<1>2. /\ knots \in [degree : {fitter.degree}, at : {{}}, length : {0}, knots : Seq(Int), mults : Seq(Nat)]
      /\ Len(knots.mults) = m /\ m >= 2 /\ m \in Nat /\ Ascending(knots.knots)
      /\ knots.knots[1] = u[1] /\ knots.knots[m] = u[n]
      /\ knots.mults[1] = fitter.degree + 1 /\ knots.mults[m] = fitter.degree + 1
      /\ \A i \in 2 .. m - 1 : knots.mults[i] \in 1 .. fitter.degree
  BY <1>1 DEF KnotsDone, FitKnots
<1>3. /\ c.degree = fitter.degree /\ c.knots = knots.knots /\ c.mults = knots.mults
      /\ c.at = passed \cup joints
  <2> HIDE DEF n, u, m
  <2>1. c = [knots EXCEPT !.at = passed \cup joints]
    BY Zenon DEF Solved
  <2> HIDE DEF passed, joints
  <2> QED
    BY <1>2, <2>1
<1>4. c.knots \in Seq(Int) /\ c.mults \in Seq(Nat) /\ knots.degree = fitter.degree
  BY <1>2, <1>3
<1> HIDE DEF passed, joints, m
<1>5. NbPoles(c) >= 2
  BY <1>3, <1>4 DEF NbPoles, KnotsDone
<1>6. IsSpline(c)
  <2>1. Len(c.knots) = m /\ Len(c.mults) = m /\ DOMAIN c.mults = 1 .. m
    BY <1>2, <1>3, <1>4 DEF m
  <2>2. Head(c.mults) = fitter.degree + 1 /\ Last(c.mults) = fitter.degree + 1
    BY <1>2, <1>3, <1>4, <2>1 DEF Last
  <2>3. m \in Nat /\ m >= 2 /\ Ascending(c.knots)
    BY <1>2, <1>3
  <2>4. \A i \in 2 .. m - 1 : c.mults[i] \in 1 .. fitter.degree
    BY <1>2, <1>3
  <2>5. c.mults[1] = fitter.degree + 1 /\ c.mults[m] = fitter.degree + 1
    BY <1>2, <1>3
  <2>6. \A i \in 1 .. m : c.mults[i] >= 1
    <3> SUFFICES ASSUME NEW i \in 1 .. m
                 PROVE  c.mults[i] >= 1
      OBVIOUS
    <3>1. CASE i \in {1, m}
      BY <1>1, <2>5, <3>1
    <3>2. CASE i \in 2 .. m - 1
      BY <1>1, <2>4, <3>2
    <3> QED
      BY <2>3, <3>1, <3>2
  <2>7. c.degree >= 1 /\ Len(c.knots) >= 2
    BY <1>1, <1>3, <2>1, <2>3
  <2>8. \A i \in 2 .. Len(c.mults) - 1 : c.mults[i] <= c.degree
    BY <1>1, <1>3, <2>1, <2>4
  <2>9. Head(c.mults) <= c.degree + 1 /\ Last(c.mults) <= c.degree + 1
    BY <1>1, <1>3, <2>2
  <2> QED
    BY <1>5, <2>1, <2>3, <2>6, <2>7, <2>8, <2>9 DEF IsSpline, IsSplineOf
<1>7. FirstParameter(c) = u[1] /\ LastParameter(c) = u[n] /\ Head(u) = u[1] /\ Last(u) = u[n]
  BY <1>1, <1>2, <1>3, <1>4 DEF FirstParameter, LastParameter, Last, m
<1>8. ASSUME NEW i \in interpolated
      PROVE  fitter.points[i + 1] \in PointAt(c, u[i + 1])
  <2>1. params[i + 1] = u[i + 1]
    BY DEF AreParams
  <2>2. <<fitter.points[i + 1], u[i + 1]>> \in c.at
    BY <1>3, <2>1 DEF passed
  <2> QED
    BY <2>2, SolvedPasses
<1>9. ASSUME NEW k \in DOMAIN kinkPoints
      PROVE  \E v \in getKinkParameters(c) : Abs(v - u[kinkPoints[k] + 1]) < KnotTol
  <2>1. k \in 1 .. Len(kinkPoints)
    BY DEF PointsInv
  <2>2. HasKink(knots, u[kinkPoints[k] + 1])
    BY <2>1 DEF KnotsDone
  <2>3. PICK i \in 2 .. m - 1 : /\ knots.mults[i] = fitter.degree
                                /\ Abs(knots.knots[i] - u[kinkPoints[k] + 1]) < KnotTol
    BY <2>2 DEF HasKink, m
  <2>4. i \in DOMAIN c.knots /\ IsKinkKnot(c, i)
    BY <1>2, <1>3, <1>4, <2>3 DEF IsKinkKnot, m
  <2>5. c.knots[i] \in getKinkParameters(c)
    BY <2>4 DEF getKinkParameters
  <2> QED
    BY <1>3, <2>3, <2>5
<1>10. ASSUME fitter.closed, maxIter = 0 \/ EndsInterpolated
       PROVE  ClosesAtEnds(c)
  <2>1. CASE EndsInterpolated
    <3>1. 0 \in interpolated /\ n - 1 \in interpolated /\ 0 + 1 = 1 /\ (n - 1) + 1 = n
      BY <1>1, <2>1 DEF EndsInterpolated
    <3>2. fitter.points[1] \in PointAt(c, u[1]) /\ fitter.points[n] \in PointAt(c, u[n])
      BY <1>8, <3>1
    <3> QED
      BY <1>1, <1>7, <1>10, <3>2 DEF ClosesAtEnds
  <2>2. CASE ~ EndsInterpolated
    <3>1. params = u
      BY <1>10, <2>2 DEF AreParams
    <3>2. NbContinuity = 3
      BY <1>10, <2>2 DEF NbContinuity
    <3>3. <<"joint", u[1]>> \in c.at /\ <<"joint", u[n]>> \in c.at
      BY <1>3, <1>7, <3>1, <3>2 DEF joints
    <3>4. "joint" \in PointAt(c, u[1]) /\ "joint" \in PointAt(c, u[n])
      BY <3>3, SolvedPasses
    <3> QED
      BY <1>7, <3>4 DEF ClosesAtEnds
  <2> QED
    BY <2>1, <2>2
<1> QED
  BY <1>6, <1>7, <1>8, <1>9, <1>10

LEMMA ReturnFitKeeps ==
  ASSUME FitInv, ReturnFit, fitter \in Fits
  PROVE  FitInv'
<1>1. /\ UNCHANGED <<fitter, approximated, interpolated, kinkPoints>>
      /\ PointsInv /\ fitting.at = "fit" /\ fitting' = Idle
      /\ fitted' = [end |-> "returned", curve |-> Solved(fitting.knots, fitting.params),
                    error |-> fitting.error, maxIter |-> fitting.maxIter]
  BY DEF ReturnFit, FitInv
<1>2. FitRuns
  BY <1>1 DEF FitInv, Idle
<1>3. PICK knots, params, error, oldError, iteration, maxIter :
        /\ fitting = Fitting(knots, params, error, oldError, iteration, maxIter)
        /\ KnotsDone(knots) /\ AreParams(params, maxIter) /\ iteration \in Nat
  BY <1>2 DEF FitRuns
<1>4. fitting.knots = knots /\ fitting.params = params /\ fitting.maxIter = maxIter
  BY <1>3 DEF Fitting
<1>5. PICK c : c = Solved(knots, params)
  OBVIOUS
<1>6. /\ IsSpline(c)
      /\ FirstParameter(c) = Head(fitter.initial) /\ LastParameter(c) = Last(fitter.initial)
      /\ \A i \in interpolated : fitter.points[i + 1] \in PointAt(c, fitter.initial[i + 1])
      /\ \A k \in DOMAIN kinkPoints :
           \E u \in getKinkParameters(c) : Abs(u - fitter.initial[kinkPoints[k] + 1]) < KnotTol
      /\ fitter.closed /\ (maxIter = 0 \/ EndsInterpolated) => ClosesAtEnds(c)
  BY <1>1, <1>3, <1>5, SolvedIsGood
<1>7. fitted'.end = "returned" /\ fitted'.curve = c /\ fitted'.maxIter = maxIter
  BY <1>1, <1>4, <1>5
<1>8. FitsInterpolate'
  BY <1>1, <1>6, <1>7 DEF FitsInterpolate
<1>9. FitsClose'
  BY <1>1, <1>6, <1>7 DEF FitsClose, EndsInterpolated
<1> QED
  BY <1>1, <1>8, <1>9 DEF FitInv, PointsInv

LEMMA FitInvStarts == FitInit => FitInv
<1> SUFFICES ASSUME FitInit
             PROVE  FitInv
  OBVIOUS
<1>1. fitter \in Fits => PointsInv
  BY DEF FitInit, PointsInv
<1> QED
  BY <1>1 DEF FitInit, FitInv, FitsInterpolate, FitsClose, NotFitted

LEMMA FitInvStays ==
  ASSUME FitInv, [FitNext]_fitVars
  PROVE  FitInv'
<1>1. CASE InterpolatePoint
  BY <1>1, InterpolatePointKeeps
<1>2. CASE Fit
  BY <1>2, FitKeeps
<1>3. CASE (Optimize \/ Singular \/ ReturnFit \/ Curve \/ ApproxSegment \/ ReturnCurve) /\ fitter \notin Fits
  <2>1. fitter' = fitter
    BY <1>3 DEF Optimize, Singular, ReturnFit, Curve, ApproxSegment, ReturnCurve
  <2> QED
    BY <1>3, <2>1 DEF FitInv, FitsInterpolate, FitsClose
<1>4. CASE Optimize /\ fitter \in Fits
  BY <1>4, OptimizeKeeps
<1>5. CASE Singular /\ fitter \in Fits
  BY <1>5 DEF Singular, FitFails, FitInv, PointsInv, FitsInterpolate, FitsClose, FitThrew
<1>6. CASE ReturnFit /\ fitter \in Fits
  BY <1>6, ReturnFitKeeps
<1>7. CASE (Curve \/ ApproxSegment \/ ReturnCurve) /\ fitter \in Fits
  <2>1. fitting.at # "split"
    BY <1>7 DEF FitInv, FitRuns, Fitting, Idle
  <2> QED
    BY <1>7, <2>1, FitsAssumption DEF Curve, ApproxSegment, ReturnCurve
<1>8. CASE UNCHANGED fitVars
  <2>1. UNCHANGED <<fitter, approximated, interpolated, kinkPoints, fitting, fitted>>
    BY <1>8 DEF fitVars
  <2>2. FitsInterpolate' /\ FitsClose'
    BY <2>1 DEF FitInv, FitsInterpolate, FitsClose, EndsInterpolated
  <2>3. ASSUME fitter \in Fits
        PROVE  PointsInv' /\ (fitting' = Idle \/ FitRuns')
    <3>1. PointsInv'
      BY <2>1, <2>3 DEF FitInv, PointsInv
    <3>2. ASSUME FitRuns
          PROVE  FitRuns'
      <4>1. PICK knots, params, error, oldError, iteration, maxIter :
              /\ fitting = Fitting(knots, params, error, oldError, iteration, maxIter)
              /\ KnotsDone(knots) /\ AreParams(params, maxIter) /\ iteration \in Nat
        BY <3>2 DEF FitRuns
      <4>2. KnotsDone(knots)' /\ AreParams(params, maxIter)'
        BY <2>1, <4>1, KnotsStayDone DEF AreParams
      <4>3. fitting' = Fitting(knots, params, error, oldError, iteration, maxIter)
        BY <2>1, <4>1
      <4> QED
        BY <4>1, <4>2, <4>3 DEF FitRuns, Fitting
    <3> QED
      BY <2>1, <2>3, <3>1, <3>2 DEF FitInv
  <2> QED
    BY <2>1, <2>2, <2>3 DEF FitInv
<1> QED
  BY <1>1, <1>2, <1>3, <1>4, <1>5, <1>6, <1>7, <1>8 DEF FitNext

THEOREM FitsKeepTheirPoints == FitSpec => []FitsInterpolate
<1>1. FitInv => FitsInterpolate
  BY DEF FitInv
<1> QED
  BY <1>1, FitInvStarts, FitInvStays, PTL DEF FitSpec

THEOREM ClosedFitsClose == FitSpec => []FitsClose
<1>1. FitInv => FitsClose
  BY DEF FitInv
<1> QED
  BY <1>1, FitInvStarts, FitInvStays, PTL DEF FitSpec
==============================================================================
