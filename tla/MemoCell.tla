------------------------------- MODULE MemoCell -------------------------------
(***************************************************************************)
(* What Cache (Cache.h) promises: a cell that holds no object or one that  *)
(* is complete.  A caller of value gets the object of the cell, which is   *)
(* built first if there is none; an owner of a write access has the cell   *)
(* for itself; clear empties it.  Locks and half built objects do not      *)
(* appear at all.                                                          *)
(***************************************************************************)
EXTENDS Naturals

CONSTANTS Readers, Writers

VARIABLES
  object,    \* the number of the object in the cell, 0 if it is empty
  made,      \* how many complete objects there have been
  editors,   \* the owners of a write access
  held       \* the object a thread has a reference to

Thread == Readers \cup Writers
memo   == <<object, made, editors, held>>

Init ==
  /\ object = 0 /\ made = 0 /\ editors = {}
  /\ held = [t \in Thread |-> 0]

Get(t) ==
  /\ t \in Readers /\ held[t] = 0
  /\ editors = {}
  /\ IF object # 0 THEN UNCHANGED <<object, made>>
                   ELSE made' = made + 1 /\ object' = made + 1
  /\ held' = [held EXCEPT ![t] = object']
  /\ UNCHANGED editors

Edit(t) ==
  /\ t \in Writers /\ held[t] = 0
  /\ editors = {}
  /\ IF object # 0 THEN UNCHANGED <<object, made>>
                   ELSE made' = made + 1 /\ object' = made + 1
  /\ held' = [held EXCEPT ![t] = object']
  /\ editors' = {t}

Release(t) ==
  /\ held[t] # 0
  /\ held' = [held EXCEPT ![t] = 0]
  /\ editors' = editors \ {t}
  /\ UNCHANGED <<object, made>>

Clear ==
  /\ editors = {}
  /\ object' = 0
  /\ UNCHANGED <<made, editors, held>>

Next == Clear \/ \E t \in Thread : Get(t) \/ Edit(t) \/ Release(t)

Spec == Init /\ [][Next]_memo
===============================================================================
