-------------------------------- MODULE Cache --------------------------------
(***************************************************************************)
(* Cache and ScopeLockedReference (Cache.h): a value that is built on      *)
(* demand and shared by threads.  Readers call value and use the reference *)
(* they get without the lock, as InterpolatePointsWithKinks::Curve and     *)
(* Parameters do; writers use the locked reference writeAccess returns;    *)
(* clearers call clear.  Every thread makes at most Calls calls.           *)
(*                                                                         *)
(* Objects are numbered when they are complete; the one under construction *)
(* has the next number.                                                    *)
(***************************************************************************)
EXTENDS Naturals, FiniteSets

CONSTANTS Readers, Writers, Clearers, Calls

ASSUME ThreadsAssumption ==
  /\ Readers \cap Writers = {} /\ Readers \cap Clearers = {}
  /\ Writers \cap Clearers = {}
ASSUME CallsAssumption == Calls \in Nat

Thread == Readers \cup Writers \cup Clearers

VARIABLES
  holders,     \* who has m_mutex locked
  cache,       \* the number of the object in m_cache, 0 for nullopt
  content,     \* what is in the object: "none" without one
  made,
  pc, left,    \* of each thread: where it is, and the calls it may still make
  ref,         \* the object its reference refers to
  builds, failures, clears,   \* how often the build function ran, threw; clear ran
  clearsSeen                  \* clears, when the thread got its reference

vars == <<holders, cache, content, made, pc, left, ref, builds, failures,
          clears, clearsSeen>>

Init ==
  /\ holders = {} /\ cache = 0 /\ content = "none" /\ made = 0
  /\ pc = [t \in Thread |-> "idle"] /\ left = [t \in Thread |-> Calls]
  /\ ref = [t \in Thread |-> 0] /\ clearsSeen = [t \in Thread |-> 0]
  /\ builds = 0 /\ failures = 0 /\ clears = 0

Goto(t, place) == pc' = [pc EXCEPT ![t] = place]
Lock(t)        == holders = {} /\ holders' = {t}
Unlock(t)      == holders' = holders \ {t}

\* A thread starts one of its calls.
Call(t, place) ==
  /\ pc[t] = "idle" /\ left[t] > 0
  /\ left' = [left EXCEPT ![t] = @ - 1]
  /\ Goto(t, place)
  /\ UNCHANGED <<holders, cache, content, made, ref, builds, failures, clears,
                 clearsSeen>>

CallValue(t)       == t \in Readers /\ Call(t, "value")
CallWriteAccess(t) == t \in Writers /\ Call(t, "writeAccess")
CallClear(t)       == t \in Clearers /\ Call(t, "clear")

(***************************************************************************)
(* value: the build runs under the lock; if it throws, the cache is empty  *)
(* again and the exception goes to the caller.                             *)
(***************************************************************************)
ReturnReference(t) ==
  /\ Goto(t, "reading")
  /\ ref' = [ref EXCEPT ![t] = cache]
  /\ clearsSeen' = [clearsSeen EXCEPT ![t] = clears]

LockInValue(t) ==
  /\ pc[t] = "value"
  /\ Lock(t) /\ Goto(t, "locked")
  /\ UNCHANGED <<cache, content, made, left, ref, builds, failures, clears, clearsSeen>>

ReturnCached(t) ==
  /\ pc[t] = "locked" /\ cache # 0
  /\ ReturnReference(t) /\ Unlock(t)
  /\ UNCHANGED <<cache, content, made, left, builds, failures, clears>>

Build(t) ==
  /\ pc[t] = "locked" /\ cache = 0
  /\ cache' = made + 1 /\ content' = "building" /\ builds' = builds + 1
  /\ Goto(t, "building")
  /\ UNCHANGED <<holders, made, left, ref, failures, clears, clearsSeen>>

ReturnBuilt(t) ==
  /\ pc[t] = "building"
  /\ content' = "built" /\ made' = made + 1
  /\ ReturnReference(t) /\ Unlock(t)
  /\ UNCHANGED <<cache, left, builds, failures, clears>>

\* Slip: the half built object stays in the cache.
ThrowWithoutReset(t) ==
  /\ pc[t] = "building"
  /\ failures' = failures + 1
  /\ Goto(t, "idle") /\ Unlock(t)
  /\ UNCHANGED <<cache, content, made, left, ref, builds, clears, clearsSeen>>

\* Slip: the lock is released by hand, and not on this way.
ThrowWithoutUnlock(t) ==
  /\ pc[t] = "building"
  /\ cache' = 0 /\ content' = "none" /\ failures' = failures + 1
  /\ Goto(t, "idle")
  /\ UNCHANGED <<holders, made, left, ref, builds, clears, clearsSeen>>

Throw(t) ==
  /\ pc[t] = "building"
  /\ cache' = 0 /\ content' = "none" /\ failures' = failures + 1
  /\ Goto(t, "idle") /\ Unlock(t)
  /\ UNCHANGED <<made, left, ref, builds, clears, clearsSeen>>

\* The caller is done with the reference.
Leave(t) ==
  /\ pc[t] = "reading"
  /\ Goto(t, "idle") /\ ref' = [ref EXCEPT ![t] = 0]
  /\ UNCHANGED <<holders, cache, content, made, left, builds, failures, clears,
                 clearsSeen>>

(***************************************************************************)
(* writeAccess: an empty cache gets an object that no build function fills *)
(* in; the lock goes to the ScopeLockedReference and is released by its    *)
(* destructor.                                                             *)
(***************************************************************************)
Emplace ==
  /\ cache' = made + 1 /\ content' = "default" /\ made' = made + 1

\* Slip: the object is made anew although there is one.
AlwaysEmplace(t) ==
  /\ pc[t] = "writeAccess"
  /\ Lock(t) /\ Goto(t, "guard")
  /\ Emplace
  /\ ref' = [ref EXCEPT ![t] = cache']
  /\ UNCHANGED <<left, builds, failures, clears, clearsSeen>>

WriteAccess(t) ==
  /\ pc[t] = "writeAccess"
  /\ Lock(t) /\ Goto(t, "guard")
  /\ IF cache = 0 THEN Emplace ELSE UNCHANGED <<cache, content, made>>
  /\ ref' = [ref EXCEPT ![t] = cache']
  /\ UNCHANGED <<left, builds, failures, clears, clearsSeen>>

Edit(t) ==
  /\ pc[t] = "guard"
  /\ content' = "edited"
  /\ UNCHANGED <<holders, cache, made, pc, left, ref, builds, failures, clears,
                 clearsSeen>>

DropGuard(t) ==
  /\ pc[t] = "guard"
  /\ Goto(t, "idle") /\ ref' = [ref EXCEPT ![t] = 0] /\ Unlock(t)
  /\ UNCHANGED <<cache, content, made, left, builds, failures, clears, clearsSeen>>

\* clear locks, empties the cache and unlocks.
Clear(t) ==
  /\ pc[t] = "clear" /\ holders = {}
  /\ cache' = 0 /\ content' = "none" /\ clears' = clears + 1
  /\ Goto(t, "idle")
  /\ UNCHANGED <<holders, made, left, ref, builds, failures, clearsSeen>>

Finished == /\ \A t \in Thread : pc[t] = "idle" /\ left[t] = 0
            /\ UNCHANGED vars

\* The steps a thread takes once it has started a call.
Step(t) ==
  \/ LockInValue(t) \/ ReturnCached(t) \/ Build(t) \/ ReturnBuilt(t) \/ Throw(t)
  \/ Leave(t) \/ WriteAccess(t) \/ DropGuard(t) \/ Clear(t)

Next ==
  \/ \E t \in Thread : \/ CallValue(t) \/ CallWriteAccess(t) \/ CallClear(t)
                       \/ Step(t) \/ Edit(t)
  \/ Finished

Spec == Init /\ [][Next]_vars

\* Every thread is scheduled, builds end and write accesses are given back.
\* The mutex itself need not be fair.
FairSpec == Spec /\ \A t \in Thread : WF_vars(Step(t))
-----------------------------------------------------------------------------
(***************************************************************************)
(* Properties.                                                             *)
(***************************************************************************)
Place   == {"idle", "value", "locked", "building", "reading", "writeAccess",
            "guard", "clear"}
Inside  == {t \in Thread : pc[t] \in {"locked", "building", "guard"}}

Types ==
  /\ holders \in SUBSET Thread
  /\ cache \in Nat /\ made \in Nat
  /\ content \in {"none", "default", "building", "built", "edited"}
  /\ pc \in [Thread -> Place]
  /\ left \in [Thread -> 0 .. Calls]
  /\ ref \in [Thread -> Nat] /\ clearsSeen \in [Thread -> Nat]
  /\ builds \in Nat /\ failures \in Nat /\ clears \in Nat

\* The types; and the mutex is held by the thread that is inside a locked
\* section, on every way out of it.
TypeOK == Types /\ holders = Inside

\* "the access is guarded for the lifetime of the returned
\* ScopeLockedReference": two threads are never both building, or writing, or
\* one of them each.
AccessIsGuarded == \A t, u \in Inside : t = u

\* No reference that value handed out refers to an object that another thread
\* is still building, nor to what a build that threw left behind.
ReadersSeeNoHalfBuilt ==
  \A t \in Thread : pc[t] = "reading" =>
    /\ ref[t] # 0
    /\ ref[t] = cache => content # "building"

\* A reference outlives its object only if clear was called meanwhile: a
\* failed build and a write access never take an object from its readers.
OnlyClearInvalidates ==
  \A t \in Thread :
    pc[t] = "reading" /\ ref[t] # cache => clearsSeen[t] < clears

\* However the threads interleave, the build function runs once and again
\* only after a clear or after it threw.
BuildsAreNeeded == builds <= 1 + failures + clears

\* All this together: the cache is a memo cell.
Memo == INSTANCE MemoCell WITH
          Readers <- Readers, Writers <- Writers,
          object  <- IF content = "building" THEN 0 ELSE cache,
          editors <- {t \in Thread : pc[t] = "guard"},
          held    <- [t \in Readers \cup Writers |-> ref[t]]

IsMemoCell == Memo!Spec

\* No call waits for ever, whichever of the waiting threads the mutex prefers.
CallsReturn == \A t \in Thread : pc[t] # "idle" ~> pc[t] = "idle"
=============================================================================
