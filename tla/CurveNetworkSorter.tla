-------------------------- MODULE CurveNetworkSorter --------------------------
(***************************************************************************)
(* CurveNetworkSorter (geometry/curve-networks): brings the profiles and   *)
(* the guides of a curve network into the order and the direction in which *)
(* the Gordon surface needs them.                                          *)
(*                                                                         *)
(* Profiles and guides are numbered from 0, as in the code.  Curves are    *)
(* handles: Reverse changes the curve itself, so the directions are kept   *)
(* per curve and not per place.  Parameters are integers; a positive one   *)
(* stands for anything above DBL_MIN.                                      *)
(***************************************************************************)
EXTENDS Integers, FiniteSets

CONSTANTS NProfiles, NGuides,
          Inputs   \* the networks Perform may be called on

Profile == 0 .. NProfiles - 1
Guide   == 0 .. NGuides - 1
Matrix  == [Profile -> [Guide -> Int]]

NullCurve  == <<>>
CurveRange == Int \X Int       \* FirstParameter, LastParameter

\* The input: both matrices, and of every curve its range, or a null handle.
IsInput(in) ==
  /\ in.profParms \in Matrix
  /\ in.guidParms \in Matrix
  /\ in.profRange \in [Profile -> CurveRange \cup {NullCurve}]
  /\ in.guidRange \in [Guide -> CurveRange \cup {NullCurve}]

ASSUME SizeAssumption == NProfiles \in Nat \ {0} /\ NGuides \in Nat \ {0}
ASSUME InputsAssumption == \A in \in Inputs : IsInput(in)

VARIABLES
  input,
  pc,
  profiles, guides,            \* m_profiles, m_guides: the curve at each place
  profMinus, guidMinus,        \* how many "-" each of m_profIdx, m_guidIdx has
  profParms, guidParms,        \* m_parmsIntersProfiles, m_parmsIntersGuides
  profReversed, guidReversed,  \* the curves that were reversed an odd number of times
  n, k                         \* the counters of the loops

curves == <<profiles, guides, profMinus, guidMinus, profReversed, guidReversed>>
parms  == <<profParms, guidParms>>
vars   == <<input, pc, curves, parms, n, k>>

(***************************************************************************)
(* The places of the extreme parameters of a row or a column: the first    *)
(* one of several.  The search for a maximum starts from DBL_MIN at place  *)
(* 0, so it only sees positive parameters.                                 *)
(***************************************************************************)
FirstLeast(f, S) ==
  CHOOSE x \in S : \A y \in S : f[x] < f[y] \/ (f[x] = f[y] /\ x <= y)

FirstGreatest(f, S) ==
  LET positive == {x \in S : f[x] > 0}
  IN  IF positive = {} THEN 0
      ELSE FirstLeast([x \in positive |-> - f[x]], positive)

Row(m, i) == [j \in Guide |-> m[i][j]]
Col(m, j) == [i \in Profile |-> m[i][j]]

minRowIndex(m, i) == FirstLeast(Row(m, i), Guide)
minColIndex(m, j) == FirstLeast(Col(m, j), Profile)
maxRowIndex(m, i) == FirstGreatest(Row(m, i), Guide)
maxColIndex(m, j) == FirstGreatest(Col(m, j), Profile)

(***************************************************************************)
(* swapProfiles, swapGuides: the curve, its index and its row or column in *)
(* both matrices change places.                                            *)
(***************************************************************************)
Transposed(a, b) == [x \in Profile \cup Guide |->
                       IF x = a THEN b ELSE IF x = b THEN a ELSE x]

\* The network after the places of the profiles were permuted by p, those of
\* the guides by g, as a whole.
Permute(p, g) ==
  /\ profiles'  = [i \in Profile |-> profiles[p[i]]]
  /\ profMinus' = [i \in Profile |-> profMinus[p[i]]]
  /\ guides'    = [j \in Guide |-> guides[g[j]]]
  /\ guidMinus' = [j \in Guide |-> guidMinus[g[j]]]
  /\ profParms' = [i \in Profile |-> [j \in Guide |-> profParms[p[i]][g[j]]]]
  /\ guidParms' = [i \in Profile |-> [j \in Guide |-> guidParms[p[i]][g[j]]]]

Nothing == Transposed(0, 0)

swapProfiles(a, b) ==
  /\ Permute(Transposed(a, b), Nothing)
  /\ UNCHANGED <<profReversed, guidReversed>>

swapGuides(a, b) ==
  /\ Permute(Nothing, Transposed(a, b))
  /\ UNCHANGED <<profReversed, guidReversed>>

(***************************************************************************)
(* reverseProfile, reverseGuide: the parameters are mirrored in the range  *)
(* of the curve or, without a curve, in the range of the row or column.    *)
(***************************************************************************)
Toggled(S, x) == IF x \in S THEN S \ {x} ELSE S \cup {x}

\* Slip: the column indices of the extremes are taken for row indices.
ProfileSumOfRow(m, i, c) == m[i][minRowIndex(m, i)] + m[i][maxRowIndex(m, i)]

ProfileSum(m, i, c) ==
  IF input.profRange[c] # NullCurve
    THEN input.profRange[c][1] + input.profRange[c][2]
    ELSE m[i][minRowIndex(m, i)] + m[i][maxRowIndex(m, i)]

GuideSum(m, j, c) ==
  IF input.guidRange[c] # NullCurve
    THEN input.guidRange[c][1] + input.guidRange[c][2]
    ELSE m[minColIndex(m, j)][j] + m[maxColIndex(m, j)][j]

MirrorRow(m, i, sum) ==
  [m EXCEPT ![i] = [j \in Guide |-> sum - m[i][j]]]
MirrorCol(m, j, sum) ==
  [i \in Profile |-> [m[i] EXCEPT ![j] = sum - m[i][j]]]

reverseProfile(i) ==
  /\ profParms' = MirrorRow(profParms, i, ProfileSum(profParms, i, profiles[i]))
  /\ profReversed' = IF input.profRange[profiles[i]] # NullCurve
                       THEN Toggled(profReversed, profiles[i]) ELSE profReversed
  /\ profMinus' = [profMinus EXCEPT ![i] = @ + 1]
  /\ UNCHANGED <<profiles, guides, guidMinus, guidParms, guidReversed>>

\* Slip: the parameters are reversed, the curve is not.
reverseGuideParms(j) ==
  /\ guidParms' = MirrorCol(guidParms, j, GuideSum(guidParms, j, guides[j]))
  /\ guidMinus' = [guidMinus EXCEPT ![j] = @ + 1]
  /\ UNCHANGED <<profiles, guides, profMinus, profParms, profReversed, guidReversed>>

reverseGuide(j) ==
  /\ guidParms' = MirrorCol(guidParms, j, GuideSum(guidParms, j, guides[j]))
  /\ guidReversed' = IF input.guidRange[guides[j]] # NullCurve
                       THEN Toggled(guidReversed, guides[j]) ELSE guidReversed
  /\ guidMinus' = [guidMinus EXCEPT ![j] = @ + 1]
  /\ UNCHANGED <<profiles, guides, profMinus, profParms, profReversed>>

(***************************************************************************)
(* GetStartCurveIndices: first a corner where a profile and a guide start, *)
(* else one where a profile starts and a guide ends.                       *)
(***************************************************************************)
FirstGuideOf(i) == minRowIndex(profParms, i)

CommonStarts == {i \in Profile : minColIndex(guidParms, FirstGuideOf(i)) = i}
LoopStarts   == {i \in Profile : maxColIndex(guidParms, FirstGuideOf(i)) = i}

Foremost(S) == CHOOSE i \in S : \A x \in S : i <= x

Init ==
  /\ input \in Inputs
  /\ pc = "start"
  /\ profiles = [i \in Profile |-> i] /\ guides = [j \in Guide |-> j]
  /\ profMinus = [i \in Profile |-> 0] /\ guidMinus = [j \in Guide |-> 0]
  /\ profReversed = {} /\ guidReversed = {}
  /\ profParms = input.profParms /\ guidParms = input.guidParms
  /\ n = 0 /\ k = 0

\* The start curves come first in their arrays.
PutFirst(i) ==
  /\ Permute(Transposed(0, i), Transposed(0, FirstGuideOf(i)))
  /\ UNCHANGED <<profReversed, guidReversed>>

StartAtCorner ==
  /\ pc = "start"
  /\ CommonStarts # {}
  /\ PutFirst(Foremost(CommonStarts))
  /\ pc' = "sortGuides" /\ n' = NGuides /\ k' = 1
  /\ UNCHANGED input

StartInLoop ==
  /\ pc = "start"
  /\ CommonStarts = {}
  /\ LoopStarts # {}
  /\ PutFirst(Foremost(LoopStarts))
  /\ pc' = "reverseFirstGuide"
  /\ UNCHANGED <<input, n, k>>

ReverseFirstGuide ==
  /\ pc = "reverseFirstGuide"
  /\ reverseGuide(0)
  /\ pc' = "sortGuides" /\ n' = NGuides /\ k' = 1
  /\ UNCHANGED input

NoStart ==
  /\ pc = "start"
  /\ CommonStarts = {} /\ LoopStarts = {}
  /\ pc' = "thrown"
  /\ UNCHANGED <<input, curves, parms, n, k>>

(***************************************************************************)
(* The two bubble sorts, which leave place 0 alone, one comparison a step. *)
(***************************************************************************)
GuidesOutOfOrder(j)   == profParms[0][j] > profParms[0][j + 1]
ProfilesOutOfOrder(i) == guidParms[i][0] > guidParms[i + 1][0]

CompareGuides ==
  /\ pc = "sortGuides" /\ n > 1 /\ k < n - 1
  /\ IF GuidesOutOfOrder(k) THEN swapGuides(k, k + 1)
                            ELSE UNCHANGED <<curves, parms>>
  /\ k' = k + 1
  /\ UNCHANGED <<input, pc, n>>

CompareProfiles ==
  /\ pc = "sortProfiles" /\ n > 1 /\ k < n - 1
  /\ IF ProfilesOutOfOrder(k) THEN swapProfiles(k, k + 1)
                              ELSE UNCHANGED <<curves, parms>>
  /\ k' = k + 1
  /\ UNCHANGED <<input, pc, n>>

NextPass ==
  /\ pc \in {"sortGuides", "sortProfiles"} /\ n > 1 /\ k >= n - 1
  /\ n' = n - 1 /\ k' = 1
  /\ UNCHANGED <<input, pc, curves, parms>>

GuidesSorted ==
  /\ pc = "sortGuides" /\ n <= 1
  /\ pc' = "sortProfiles" /\ n' = NProfiles /\ k' = 1
  /\ UNCHANGED <<input, curves, parms>>

ProfilesSorted ==
  /\ pc = "sortProfiles" /\ n <= 1
  /\ pc' = "reverseProfiles" /\ k' = 1
  /\ UNCHANGED <<input, curves, parms, n>>

(***************************************************************************)
(* The curves that run against the first ones are reversed.                *)
(***************************************************************************)
RunsBackProfile(i) == profParms[i][0] > profParms[i][NGuides - 1]
\* Slip: the direction of a guide is read from the parameters on the profiles.
RunsBackOtherMatrix(j) == profParms[0][j] > profParms[NProfiles - 1][j]
RunsBackGuide(j)   == guidParms[0][j] > guidParms[NProfiles - 1][j]

CheckProfile ==
  /\ pc = "reverseProfiles" /\ k < NProfiles
  /\ IF RunsBackProfile(k) THEN reverseProfile(k) ELSE UNCHANGED <<curves, parms>>
  /\ k' = k + 1
  /\ UNCHANGED <<input, pc, n>>

ProfilesChecked ==
  /\ pc = "reverseProfiles" /\ k >= NProfiles
  /\ pc' = "reverseGuides" /\ k' = 1
  /\ UNCHANGED <<input, curves, parms, n>>

CheckGuide ==
  /\ pc = "reverseGuides" /\ k < NGuides
  /\ IF RunsBackGuide(k) THEN reverseGuide(k) ELSE UNCHANGED <<curves, parms>>
  /\ k' = k + 1
  /\ UNCHANGED <<input, pc, n>>

GuidesChecked ==
  /\ pc = "reverseGuides" /\ k >= NGuides
  /\ pc' = "performed"
  /\ UNCHANGED <<input, curves, parms, n, k>>

\* Perform returns at once when it has performed; an exception ends it.
Stopped == pc \in {"performed", "thrown"} /\ UNCHANGED vars

Next ==
  \/ StartAtCorner \/ StartInLoop \/ ReverseFirstGuide \/ NoStart
  \/ CompareGuides \/ CompareProfiles \/ NextPass
  \/ GuidesSorted \/ ProfilesSorted
  \/ CheckProfile \/ ProfilesChecked \/ CheckGuide \/ GuidesChecked
  \/ Stopped

Spec == Init /\ [][Next]_vars

-----------------------------------------------------------------------------
(***************************************************************************)
(* Properties.                                                             *)
(***************************************************************************)
Phase == {"start", "reverseFirstGuide", "sortGuides", "sortProfiles",
          "reverseProfiles", "reverseGuides", "performed", "thrown"}

\* The arrays and matrices keep their sizes and the counters stay inside them.
TypeOK ==
  /\ IsInput(input)
  /\ pc \in Phase
  /\ profiles \in [Profile -> Profile] /\ guides \in [Guide -> Guide]
  /\ profMinus \in [Profile -> Nat] /\ guidMinus \in [Guide -> Nat]
  /\ profParms \in Matrix /\ guidParms \in Matrix
  /\ profReversed \in SUBSET Profile /\ guidReversed \in SUBSET Guide
  /\ n \in Nat /\ k \in Nat
  /\ pc = "sortGuides" => n <= NGuides /\ k >= 1
  /\ pc = "sortProfiles" => n <= NProfiles /\ k >= 1
  /\ pc \in {"reverseProfiles", "reverseGuides"} => k >= 1

\* No curve is lost or doubled by the swaps.
CurvesArePermuted ==
  /\ \A i, x \in Profile : profiles[i] = profiles[x] => i = x
  /\ \A j, x \in Guide : guides[j] = guides[x] => j = x

\* The parameter at which curve c, now in its direction, meets the other
\* curve, when p was the parameter on the curve as it was given.
Now(p, range, reversed) == IF reversed THEN range[1] + range[2] - p ELSE p

\* "profiles[i](parmsIntersProfiles(i, j)) == guides[j](parmsIntersGuides(i, j))"
\* (CurveNetworkSorter.h): whatever was swapped and reversed, the matrices
\* hold the parameters at which these two curves met when they were given.
ParametersFollowCurves ==
  \A i \in Profile, j \in Guide :
    /\ input.profRange[profiles[i]] # NullCurve =>
         profParms[i][j] = Now(input.profParms[profiles[i]][guides[j]],
                               input.profRange[profiles[i]],
                               profiles[i] \in profReversed)
    /\ input.guidRange[guides[j]] # NullCurve =>
         guidParms[i][j] = Now(input.guidParms[profiles[i]][guides[j]],
                               input.guidRange[guides[j]],
                               guides[j] \in guidReversed)

\* A curve is reversed at most once, and its index has a "-" exactly then.
IndicesTellTheDirection ==
  /\ \A i \in Profile :
       /\ profMinus[i] <= 1
       /\ input.profRange[profiles[i]] # NullCurve =>
            (profMinus[i] = 1 <=> profiles[i] \in profReversed)
  /\ \A j \in Guide :
       /\ guidMinus[j] <= 1
       /\ input.guidRange[guides[j]] # NullCurve =>
            (guidMinus[j] = 1 <=> guides[j] \in guidReversed)

\* Along two rows, or two columns, the other curves come in the same order or
\* in the opposite one.
Alike(f, h, S) ==
  \/ \A a, b \in S : f[a] < f[b] <=> h[a] < h[b]
  \/ \A a, b \in S : f[a] < f[b] <=> h[b] < h[a]

NoneTwice(f, S) == \A a, b \in S : f[a] = f[b] => a = b

RowsAlike(m) == \A i, x \in Profile :
                  NoneTwice(Row(m, i), Guide) /\ Alike(Row(m, i), Row(m, x), Guide)
ColsAlike(m) == \A j, x \in Guide :
                  NoneTwice(Col(m, j), Profile) /\ Alike(Col(m, j), Col(m, x), Profile)

\* A network that is a grid: all guides cross the profiles in one order and all
\* profiles the guides, not all of them at parameters the search for the
\* greatest overlooks.
IsGrid(in) ==
  /\ RowsAlike(in.profParms) /\ ColsAlike(in.guidParms)
  /\ \A j \in Guide : \E i \in Profile : in.guidParms[i][j] > 0

\* On a network that is a grid, in whatever order and direction its curves
\* are given, Perform finds a start and every row and column ends ascending.
GridsAreSorted == IsGrid(input) =>
  /\ pc # "thrown"
  /\ pc = "performed" =>
       \A i \in Profile, j \in Guide :
         /\ j + 1 \in Guide => profParms[i][j] < profParms[i][j + 1]
         /\ i + 1 \in Profile => guidParms[i][j] < guidParms[i + 1][j]

=============================================================================
