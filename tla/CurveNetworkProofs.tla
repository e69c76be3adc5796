-------------------------- MODULE CurveNetworkProofs --------------------------
(***************************************************************************)
(* What CurveNetworkSorter keeps for every network, sorted or not: both    *)
(* matrices go on describing the curves they were computed for, no curve   *)
(* is lost, and every curve is turned round at most once.  That it brings  *)
(* every grid into its order.  And that InterpolateCurveNetwork takes      *)
(* over what the sorter has done to its curves, call after call, for every *)
(* number of curves and whatever network it was made of.                   *)
(***************************************************************************)
EXTENDS CurveNetwork, OrderLemmas

-----------------------------------------------------------------------------
(***************************************************************************)
(* CurveNetworkSorter.                                                     *)
(***************************************************************************)
\* The places are numbers, finitely many, and 0 is one of them.
LEMMA Places ==
  /\ Profile \in SUBSET Nat /\ IsFiniteSet(Profile) /\ 0 \in Profile
  /\ Guide \in SUBSET Nat /\ IsFiniteSet(Guide) /\ 0 \in Guide
<1>1. IsFiniteSet(0 .. NProfiles - 1) /\ IsFiniteSet(0 .. NGuides - 1)
  BY SizeAssumption, FS_Interval
<1> QED
  BY <1>1, SizeAssumption DEF Profile, Guide

LEMMA FirstLeastIn ==
  ASSUME NEW S \in SUBSET Nat, IsFiniteSet(S), S # {}, NEW f \in [S -> Int]
  PROVE  FirstLeast(f, S) \in S
<1>1. \E x \in S : \A y \in S : f[x] < f[y] \/ (f[x] = f[y] /\ x <= y)
  BY FirstLeastPlace
<1> QED
  BY <1>1, Zenon DEF FirstLeast

\* The searches of GetStartCurveIndices end on a place.
LEMMA GuideFound ==
  ASSUME profParms \in Matrix, NEW i \in Profile
  PROVE  FirstGuideOf(i) \in Guide
<1>1. Row(profParms, i) \in [Guide -> Int]
  BY DEF Row, Matrix
<1> QED
  BY <1>1, Places, FirstLeastIn DEF FirstGuideOf, minRowIndex

LEMMA ForemostIn ==
  ASSUME NEW S \in SUBSET Profile, S # {}
  PROVE  Foremost(S) \in Profile
BY LeastNumber, Places DEF Foremost

\* Exchanging two places permutes the places.
LEMMA TransposedProfiles ==
  ASSUME NEW a \in Profile, NEW b \in Profile
  PROVE  /\ \A i \in Profile : Transposed(a, b)[i] \in Profile
         /\ \A i, x \in Profile : Transposed(a, b)[i] = Transposed(a, b)[x] => i = x
BY DEF Transposed

LEMMA TransposedGuides ==
  ASSUME NEW a \in Guide, NEW b \in Guide
  PROVE  /\ \A j \in Guide : Transposed(a, b)[j] \in Guide
         /\ \A j, x \in Guide : Transposed(a, b)[j] = Transposed(a, b)[x] => j = x
BY DEF Transposed

LEMMA NothingMoves ==
  /\ \A i \in Profile : Nothing[i] = i
  /\ \A j \in Guide : Nothing[j] = j
BY DEF Nothing, Transposed

(***************************************************************************)
(* The invariant, kept by the two ways in which a step changes the         *)
(* network: by moving curves to other places, and by reversing one.        *)
(***************************************************************************)
NetworkType ==
  /\ IsInput(input)
  /\ profiles \in [Profile -> Profile] /\ guides \in [Guide -> Guide]
  /\ profMinus \in [Profile -> Nat] /\ guidMinus \in [Guide -> Nat]
  /\ profParms \in Matrix /\ guidParms \in Matrix
  /\ profReversed \in SUBSET Profile /\ guidReversed \in SUBSET Guide

NetworkInv == NetworkType /\ CurvesArePermuted /\ ParametersFollowCurves

IsPermutation(p, S) == /\ \A x \in S : p[x] \in S
                       /\ \A x, y \in S : p[x] = p[y] => x = y

LEMMA PermuteKeeps ==
  ASSUME NetworkInv, NEW p, NEW g, IsPermutation(p, Profile),
         IsPermutation(g, Guide), Permute(p, g),
         UNCHANGED <<input, profReversed, guidReversed>>
  PROVE  NetworkInv'
<1>1. NetworkType'
  <2>1. profParms' \in Matrix /\ guidParms' \in Matrix
    BY DEF NetworkInv, NetworkType, Permute, IsPermutation, Matrix
  <2>2. /\ profiles' \in [Profile -> Profile] /\ guides' \in [Guide -> Guide]
        /\ profMinus' \in [Profile -> Nat] /\ guidMinus' \in [Guide -> Nat]
    BY DEF NetworkInv, NetworkType, Permute, IsPermutation
  <2> QED
    BY <2>1, <2>2 DEF NetworkInv, NetworkType
<1>2. CurvesArePermuted'
  BY DEF NetworkInv, NetworkType, CurvesArePermuted, Permute, IsPermutation
<1>3. ParametersFollowCurves'
  <2> SUFFICES ASSUME NEW i \in Profile, NEW j \in Guide
               PROVE  /\ input.profRange[profiles'[i]] # NullCurve =>
                           profParms'[i][j] =
                             Now(input.profParms[profiles'[i]][guides'[j]],
                                 input.profRange[profiles'[i]],
                                 profiles'[i] \in profReversed)
                      /\ input.guidRange[guides'[j]] # NullCurve =>
                           guidParms'[i][j] =
                             Now(input.guidParms[profiles'[i]][guides'[j]],
                                 input.guidRange[guides'[j]],
                                 guides'[j] \in guidReversed)
    BY DEF ParametersFollowCurves
  <2>1. /\ profiles'[i] = profiles[p[i]] /\ guides'[j] = guides[g[j]]
        /\ profParms'[i][j] = profParms[p[i]][g[j]]
        /\ guidParms'[i][j] = guidParms[p[i]][g[j]]
        /\ p[i] \in Profile /\ g[j] \in Guide
    BY DEF Permute, IsPermutation
  <2> QED
    BY <2>1, Zenon DEF NetworkInv, ParametersFollowCurves
<1> QED
  BY <1>1, <1>2, <1>3 DEF NetworkInv

LEMMA FirstGreatestIn ==
  ASSUME NEW S \in SUBSET Nat, IsFiniteSet(S), 0 \in S, NEW f \in [S -> Int]
  PROVE  FirstGreatest(f, S) \in S
<1> DEFINE positive == {x \in S : f[x] > 0}
           negated  == [x \in positive |-> - f[x]]
<1>1. IsFiniteSet(positive) /\ positive \in SUBSET Nat
  BY FS_Subset
<1>2. negated \in [positive -> Int]
  <2>1. \A x \in positive : f[x] \in Int
    OBVIOUS
  <2> HIDE DEF positive
  <2> QED
    BY <2>1
<1>3. CASE positive = {}
  BY <1>3 DEF FirstGreatest
<1>4. CASE positive # {}
  <2>1. FirstLeast(negated, positive) \in positive
    <3> HIDE DEF positive, negated
    <3> QED
      BY <1>1, <1>2, <1>4, FirstLeastIn
  <2> QED
    BY <1>4, <2>1 DEF FirstGreatest
<1> QED
  BY <1>3, <1>4

\* The sum a row or a column is mirrored in is a number.
LEMMA SumsAreInt ==
  ASSUME NetworkType
  PROVE  /\ \A i \in Profile : ProfileSum(profParms, i, profiles[i]) \in Int
         /\ \A j \in Guide : GuideSum(guidParms, j, guides[j]) \in Int
<1>1. ASSUME NEW i \in Profile
      PROVE  ProfileSum(profParms, i, profiles[i]) \in Int
  <2>1. Row(profParms, i) \in [Guide -> Int]
    BY DEF NetworkType, Matrix, Row
  <2>2. /\ minRowIndex(profParms, i) \in Guide
        /\ maxRowIndex(profParms, i) \in Guide
    BY <2>1, Places, FirstLeastIn, FirstGreatestIn DEF minRowIndex, maxRowIndex
  <2>3. input.profRange[profiles[i]] \in (Int \X Int) \cup {NullCurve}
    BY InputsAssumption DEF NetworkType, IsInput, CurveRange
  <2>4. CASE input.profRange[profiles[i]] # NullCurve
    BY <2>3, <2>4 DEF ProfileSum
  <2>5. CASE input.profRange[profiles[i]] = NullCurve
    BY <2>2, <2>5 DEF ProfileSum, NetworkType, Matrix
  <2> QED
    BY <2>4, <2>5
<1>2. ASSUME NEW j \in Guide
      PROVE  GuideSum(guidParms, j, guides[j]) \in Int
  <2>1. Col(guidParms, j) \in [Profile -> Int]
    BY DEF NetworkType, Matrix, Col
  <2>2. /\ minColIndex(guidParms, j) \in Profile
        /\ maxColIndex(guidParms, j) \in Profile
    BY <2>1, Places, FirstLeastIn, FirstGreatestIn DEF minColIndex, maxColIndex
  <2>3. input.guidRange[guides[j]] \in (Int \X Int) \cup {NullCurve}
    BY InputsAssumption DEF NetworkType, IsInput, CurveRange
  <2>4. CASE input.guidRange[guides[j]] # NullCurve
    BY <2>3, <2>4 DEF GuideSum
  <2>5. CASE input.guidRange[guides[j]] = NullCurve
    BY <2>2, <2>5 DEF GuideSum, NetworkType, Matrix
  <2> QED
    BY <2>4, <2>5
<1> QED
  BY <1>1, <1>2

LEMMA ReverseProfileKeeps ==
  ASSUME NetworkInv, NEW i \in Profile, reverseProfile(i), UNCHANGED input
  PROVE  NetworkInv'
<1> DEFINE sum == ProfileSum(profParms, i, profiles[i])
<1>1. NetworkType'
  <2>1. sum \in Int
    BY SumsAreInt DEF NetworkInv
  <2>2. profParms' \in Matrix
    <3> HIDE DEF sum
    <3>1. profParms' = MirrorRow(profParms, i, sum)
      BY DEF reverseProfile, sum
    <3> QED
      BY <2>1, <3>1 DEF NetworkInv, NetworkType, MirrorRow, Matrix
  <2>3. profMinus' \in [Profile -> Nat] /\ profReversed' \in SUBSET Profile
    BY DEF NetworkInv, NetworkType, reverseProfile, Toggled
  <2> QED
    BY <2>2, <2>3 DEF NetworkInv, NetworkType, reverseProfile
<1>2. CurvesArePermuted'
  BY DEF NetworkInv, CurvesArePermuted, reverseProfile
<1>3. ASSUME NEW x \in Profile, NEW j \in Guide,
             input.profRange[profiles[x]] # NullCurve
      PROVE  profParms'[x][j] = Now(input.profParms[profiles[x]][guides[j]],
                                    input.profRange[profiles[x]],
                                    profiles[x] \in profReversed')
  <2> DEFINE p == input.profParms[profiles[x]][guides[j]]
             range == input.profRange[profiles[x]]
  <2>1. p \in Int /\ range \in CurveRange
    BY <1>3, InputsAssumption
       DEF NetworkInv, NetworkType, IsInput, Matrix
  <2>2. profParms[x][j] = Now(p, range, profiles[x] \in profReversed)
    BY <1>3 DEF NetworkInv, ParametersFollowCurves
  <2>3. CASE x = i
    <3>1. profParms'[x][j] = (range[1] + range[2]) - profParms[x][j]
      <4>1. sum = range[1] + range[2]
        BY <1>3, <2>3 DEF ProfileSum
      <4>2. profParms' = MirrorRow(profParms, i, sum)
        BY DEF reverseProfile
      <4>3. profParms'[x][j] = sum - profParms[x][j]
        <5> HIDE DEF sum
        <5> QED
          BY <2>3, <4>2 DEF MirrorRow, NetworkInv, NetworkType, Matrix
      <4> QED
        BY <4>1, <4>3
    <3>2. profiles[x] \in profReversed' <=> profiles[x] \notin profReversed
      BY <1>3, <2>3 DEF reverseProfile, Toggled
    <3> QED
      BY <2>1, <2>2, <3>1, <3>2 DEF Now, CurveRange
  <2>4. CASE x # i
    <3>1. profParms'[x][j] = profParms[x][j]
      BY <2>4 DEF reverseProfile, MirrorRow, NetworkInv, NetworkType, Matrix
    <3>2. profiles[x] # profiles[i]
      BY <2>4 DEF NetworkInv, CurvesArePermuted
    <3>3. profiles[x] \in profReversed' <=> profiles[x] \in profReversed
      BY <3>2 DEF reverseProfile, Toggled
    <3> QED
      BY <2>2, <3>1, <3>3 DEF Now
  <2> QED
    BY <2>3, <2>4
<1>4. ParametersFollowCurves'
  <2>1. UNCHANGED <<profiles, guides, guidParms, guidReversed>>
    BY DEF reverseProfile
  <2> QED
    BY <1>3, <2>1, Zenon DEF ParametersFollowCurves, NetworkInv
<1> QED
  BY <1>1, <1>2, <1>4 DEF NetworkInv

LEMMA ReverseGuideKeeps ==
  ASSUME NetworkInv, NEW j \in Guide, reverseGuide(j), UNCHANGED input
  PROVE  NetworkInv'
<1> DEFINE sum == GuideSum(guidParms, j, guides[j])
<1>1. NetworkType'
  <2>1. sum \in Int
    BY SumsAreInt DEF NetworkInv
  <2>2. guidParms' \in Matrix
    <3> HIDE DEF sum
    <3>1. guidParms' = MirrorCol(guidParms, j, sum)
      BY DEF reverseGuide, sum
    <3> QED
      BY <2>1, <3>1 DEF NetworkInv, NetworkType, MirrorCol, Matrix
  <2>3. guidMinus' \in [Guide -> Nat] /\ guidReversed' \in SUBSET Guide
    BY DEF NetworkInv, NetworkType, reverseGuide, Toggled
  <2> QED
    BY <2>2, <2>3 DEF NetworkInv, NetworkType, reverseGuide
<1>2. CurvesArePermuted'
  BY DEF NetworkInv, CurvesArePermuted, reverseGuide
<1>3. ASSUME NEW i \in Profile, NEW x \in Guide,
             input.guidRange[guides[x]] # NullCurve
      PROVE  guidParms'[i][x] = Now(input.guidParms[profiles[i]][guides[x]],
                                    input.guidRange[guides[x]],
                                    guides[x] \in guidReversed')
  <2> DEFINE p == input.guidParms[profiles[i]][guides[x]]
             range == input.guidRange[guides[x]]
  <2>1. p \in Int /\ range \in CurveRange
    BY <1>3, InputsAssumption
       DEF NetworkInv, NetworkType, IsInput, Matrix
  <2>2. guidParms[i][x] = Now(p, range, guides[x] \in guidReversed)
    BY <1>3 DEF NetworkInv, ParametersFollowCurves
  <2>3. CASE x = j
    <3>1. guidParms'[i][x] = (range[1] + range[2]) - guidParms[i][x]
      <4>1. sum = range[1] + range[2]
        BY <1>3, <2>3 DEF GuideSum
      <4>2. guidParms' = MirrorCol(guidParms, j, sum)
        BY DEF reverseGuide
      <4>3. guidParms'[i][x] = sum - guidParms[i][x]
        <5> HIDE DEF sum
        <5> QED
          BY <2>3, <4>2 DEF MirrorCol, NetworkInv, NetworkType, Matrix
      <4> QED
        BY <4>1, <4>3
    <3>2. guides[x] \in guidReversed' <=> guides[x] \notin guidReversed
      BY <1>3, <2>3 DEF reverseGuide, Toggled
    <3> QED
      BY <2>1, <2>2, <3>1, <3>2 DEF Now, CurveRange
  <2>4. CASE x # j
    <3>1. guidParms'[i][x] = guidParms[i][x]
      BY <2>4 DEF reverseGuide, MirrorCol, NetworkInv, NetworkType, Matrix
    <3>2. guides[x] # guides[j]
      BY <2>4 DEF NetworkInv, CurvesArePermuted
    <3>3. guides[x] \in guidReversed' <=> guides[x] \in guidReversed
      BY <3>2 DEF reverseGuide, Toggled
    <3> QED
      BY <2>2, <3>1, <3>3 DEF Now
  <2> QED
    BY <2>3, <2>4
<1>4. ParametersFollowCurves'
  <2>1. UNCHANGED <<profiles, guides, profParms, profReversed>>
    BY DEF reverseGuide
  <2> QED
    BY <1>3, <2>1, Zenon DEF ParametersFollowCurves, NetworkInv
<1> QED
  BY <1>1, <1>2, <1>4 DEF NetworkInv

(***************************************************************************)
(* The indices.  A curve is reversed only while its index has no "-" yet:  *)
(* Unmarked says which places are known to be so in each phase.            *)
(***************************************************************************)
Unmarked ==
  /\ pc \in {"start", "reverseFirstGuide", "sortGuides", "sortProfiles", "thrown"} =>
       \A i \in Profile : profMinus[i] = 0
  /\ pc = "reverseProfiles" => \A i \in Profile : i >= k => profMinus[i] = 0
  /\ pc \in {"start", "reverseFirstGuide"} => \A j \in Guide : guidMinus[j] = 0
  /\ pc \in {"sortGuides", "sortProfiles", "reverseProfiles"} =>
       \A j \in Guide : j >= 1 => guidMinus[j] = 0
  /\ pc = "reverseGuides" => \A j \in Guide : j >= k => guidMinus[j] = 0

LEMMA PermuteKeepsIndices ==
  ASSUME NetworkType, IndicesTellTheDirection, NEW p, NEW g,
         IsPermutation(p, Profile), IsPermutation(g, Guide), Permute(p, g),
         UNCHANGED <<input, profReversed, guidReversed>>
  PROVE  IndicesTellTheDirection'
<1>1. ASSUME NEW i \in Profile
      PROVE  /\ profMinus'[i] <= 1
             /\ input.profRange[profiles'[i]] # NullCurve =>
                  (profMinus'[i] = 1 <=> profiles'[i] \in profReversed)
  <2>1. /\ profiles'[i] = profiles[p[i]] /\ profMinus'[i] = profMinus[p[i]]
        /\ p[i] \in Profile
    BY DEF Permute, IsPermutation
  <2> QED
    BY <2>1, Zenon DEF IndicesTellTheDirection
<1>2. ASSUME NEW j \in Guide
      PROVE  /\ guidMinus'[j] <= 1
             /\ input.guidRange[guides'[j]] # NullCurve =>
                  (guidMinus'[j] = 1 <=> guides'[j] \in guidReversed)
  <2>1. /\ guides'[j] = guides[g[j]] /\ guidMinus'[j] = guidMinus[g[j]]
        /\ g[j] \in Guide
    BY DEF Permute, IsPermutation
  <2> QED
    BY <2>1, Zenon DEF IndicesTellTheDirection
<1> QED
  BY <1>1, <1>2, Zenon DEF IndicesTellTheDirection

LEMMA ReverseProfileKeepsIndices ==
  ASSUME NetworkInv, IndicesTellTheDirection, NEW i \in Profile,
         profMinus[i] = 0, reverseProfile(i), UNCHANGED input
  PROVE  IndicesTellTheDirection'
<1>1. /\ UNCHANGED <<profiles, guides, guidMinus, guidReversed>>
      /\ profMinus' = [profMinus EXCEPT ![i] = 1]
  BY DEF reverseProfile, NetworkInv, NetworkType
<1>2. ASSUME NEW x \in Profile
      PROVE  /\ profMinus'[x] <= 1
             /\ input.profRange[profiles[x]] # NullCurve =>
                  (profMinus'[x] = 1 <=> profiles[x] \in profReversed')
  <2>1. CASE x = i
    BY <1>1, <2>1 DEF reverseProfile, Toggled, IndicesTellTheDirection,
                      NetworkInv, NetworkType
  <2>2. CASE x # i
    <3>1. profMinus'[x] = profMinus[x]
      BY <1>1, <2>2 DEF NetworkInv, NetworkType
    <3>2. profiles[x] # profiles[i]
      BY <2>2 DEF NetworkInv, CurvesArePermuted
    <3>3. profiles[x] \in profReversed' <=> profiles[x] \in profReversed
      BY <3>2 DEF reverseProfile, Toggled
    <3> QED
      BY <3>1, <3>3, Zenon DEF IndicesTellTheDirection
  <2> QED
    BY <2>1, <2>2
<1> QED
  BY <1>1, <1>2, Zenon DEF IndicesTellTheDirection

LEMMA ReverseGuideKeepsIndices ==
  ASSUME NetworkInv, IndicesTellTheDirection, NEW j \in Guide,
         guidMinus[j] = 0, reverseGuide(j), UNCHANGED input
  PROVE  IndicesTellTheDirection'
<1>1. /\ UNCHANGED <<profiles, guides, profMinus, profReversed>>
      /\ guidMinus' = [guidMinus EXCEPT ![j] = 1]
  BY DEF reverseGuide, NetworkInv, NetworkType
<1>2. ASSUME NEW x \in Guide
      PROVE  /\ guidMinus'[x] <= 1
             /\ input.guidRange[guides[x]] # NullCurve =>
                  (guidMinus'[x] = 1 <=> guides[x] \in guidReversed')
  <2>1. CASE x = j
    BY <1>1, <2>1 DEF reverseGuide, Toggled, IndicesTellTheDirection,
                      NetworkInv, NetworkType
  <2>2. CASE x # j
    <3>1. guidMinus'[x] = guidMinus[x]
      BY <1>1, <2>2 DEF NetworkInv, NetworkType
    <3>2. guides[x] # guides[j]
      BY <2>2 DEF NetworkInv, CurvesArePermuted
    <3>3. guides[x] \in guidReversed' <=> guides[x] \in guidReversed
      BY <3>2 DEF reverseGuide, Toggled
    <3> QED
      BY <3>1, <3>3, Zenon DEF IndicesTellTheDirection
  <2> QED
    BY <2>1, <2>2
<1> QED
  BY <1>1, <1>2, Zenon DEF IndicesTellTheDirection

(***************************************************************************)
(* The inductive invariant and its steps.                                  *)
(***************************************************************************)
IInv == TypeOK /\ CurvesArePermuted /\ ParametersFollowCurves
        /\ IndicesTellTheDirection /\ Unmarked

\* Counters is TypeOK without the part that NetworkType states.
Counters ==
  /\ pc \in Phase
  /\ n \in Nat /\ k \in Nat
  /\ pc = "sortGuides" => n <= NGuides /\ k >= 1
  /\ pc = "sortProfiles" => n <= NProfiles /\ k >= 1
  /\ pc \in {"reverseProfiles", "reverseGuides"} => k >= 1

LEMMA IInvParts ==
  /\ IInv <=> NetworkInv /\ Counters /\ IndicesTellTheDirection /\ Unmarked
  /\ IInv' <=> NetworkInv' /\ Counters' /\ IndicesTellTheDirection' /\ Unmarked'
<1>1. TypeOK <=> NetworkType /\ Counters
  BY DEF TypeOK, NetworkType, Counters
<1>2. TypeOK' <=> NetworkType' /\ Counters'
  BY DEF TypeOK, NetworkType, Counters
<1> QED
  BY <1>1, <1>2 DEF IInv, NetworkInv

\* A new sorter, of any curves and matrices.
Fresh ==
  /\ IsInput(input)
  /\ pc = "start"
  /\ profiles = [i \in Profile |-> i] /\ guides = [j \in Guide |-> j]
  /\ profMinus = [i \in Profile |-> 0] /\ guidMinus = [j \in Guide |-> 0]
  /\ profReversed = {} /\ guidReversed = {}
  /\ profParms = input.profParms /\ guidParms = input.guidParms
  /\ n = 0 /\ k = 0

LEMMA FreshIInv == Fresh => IInv
<1> SUFFICES ASSUME Fresh PROVE IInv
  OBVIOUS
<1>1. NetworkType
  BY DEF Fresh, NetworkType, IsInput
<1>2. Counters
  BY DEF Fresh, Counters, Phase
<1>3. CurvesArePermuted
  BY DEF Fresh, CurvesArePermuted
<1>4. ParametersFollowCurves
  BY DEF Fresh, ParametersFollowCurves, Now
<1>5. IndicesTellTheDirection
  BY DEF Fresh, IndicesTellTheDirection
<1>6. Unmarked
  BY DEF Fresh, Unmarked
<1> QED
  BY <1>1, <1>2, <1>3, <1>4, <1>5, <1>6, IInvParts DEF NetworkInv

LEMMA InitIInv == Init => IInv
BY FreshIInv, InputsAssumption DEF Init, Fresh

\* Swaps of two places keep all that does not depend on the phase.
LEMMA SwapKeeps ==
  ASSUME IInv, NEW a \in Profile, NEW b \in Profile, NEW c \in Guide, NEW d \in Guide,
         Permute(Transposed(a, b), Transposed(c, d)),
         UNCHANGED <<input, profReversed, guidReversed>>
  PROVE  NetworkInv' /\ IndicesTellTheDirection'
<1>1. /\ IsPermutation(Transposed(a, b), Profile)
      /\ IsPermutation(Transposed(c, d), Guide)
  BY TransposedProfiles, TransposedGuides DEF IsPermutation
<1> QED
  BY <1>1, IInvParts, PermuteKeeps, PermuteKeepsIndices DEF NetworkInv

LEMMA StartSteps ==
  ASSUME IInv, StartAtCorner \/ StartInLoop
  PROVE  IInv'
<1>1. PICK i \in Profile : PutFirst(i)
  <2>1. CommonStarts \in SUBSET Profile /\ LoopStarts \in SUBSET Profile
    BY DEF CommonStarts, LoopStarts
  <2> QED
    BY <2>1, ForemostIn DEF StartAtCorner, StartInLoop
<1>2. FirstGuideOf(i) \in Guide
  BY GuideFound DEF IInv, TypeOK
<1>3. NetworkInv' /\ IndicesTellTheDirection'
  BY <1>1, <1>2, Places, SwapKeeps DEF PutFirst, StartAtCorner, StartInLoop
<1>4. Counters'
  BY SizeAssumption DEF StartAtCorner, StartInLoop, IInv, TypeOK, Counters, Phase
<1>5. Unmarked'
  <2>1. /\ \A x \in Profile : profMinus[x] = 0
        /\ \A x \in Guide : guidMinus[x] = 0
    BY DEF IInv, Unmarked, StartAtCorner, StartInLoop
  <2>2. /\ \A x \in Profile : profMinus'[x] = profMinus[Transposed(0, i)[x]]
        /\ \A x \in Guide : guidMinus'[x] = guidMinus[Transposed(0, FirstGuideOf(i))[x]]
    BY <1>1 DEF PutFirst, Permute
  <2>3. /\ \A x \in Profile : profMinus'[x] = 0
        /\ \A x \in Guide : guidMinus'[x] = 0
    BY <1>2, <2>1, <2>2, Places, TransposedProfiles, TransposedGuides
  <2>4. pc' \in {"sortGuides", "reverseFirstGuide"}
    BY DEF StartAtCorner, StartInLoop
  <2> QED
    BY <2>3, <2>4 DEF Unmarked
<1> QED
  BY <1>3, <1>4, <1>5, IInvParts

LEMMA ReverseFirstGuideStep ==
  ASSUME IInv, ReverseFirstGuide
  PROVE  IInv'
<1>1. /\ pc = "reverseFirstGuide" /\ pc' = "sortGuides" /\ n' = NGuides /\ k' = 1
      /\ reverseGuide(0) /\ UNCHANGED input /\ 0 \in Guide
  BY Places DEF ReverseFirstGuide
<1>2. guidMinus[0] = 0
  BY <1>1 DEF IInv, Unmarked
<1>3. NetworkInv' /\ IndicesTellTheDirection'
  BY <1>1, <1>2, IInvParts, ReverseGuideKeeps, ReverseGuideKeepsIndices
<1>4. Counters'
  BY <1>1, SizeAssumption DEF Counters, Phase
<1>5. Unmarked'
  <2>1. guidMinus' = [guidMinus EXCEPT ![0] = guidMinus[0] + 1] /\ profMinus' = profMinus
    BY <1>1 DEF reverseGuide
  <2>2. \A x \in Guide : x >= 1 => guidMinus'[x] = guidMinus[x]
    BY <1>1, <2>1, Places DEF IInv, TypeOK
  <2> QED
    BY <1>1, <2>1, <2>2 DEF IInv, Unmarked
<1> QED
  BY <1>3, <1>4, <1>5, IInvParts

\* A step that only moves on in the loops keeps the network.
LEMMA QuietKeeps ==
  ASSUME IInv, UNCHANGED <<input, curves, parms>>
  PROVE  NetworkInv' /\ IndicesTellTheDirection'
<1>1. UNCHANGED <<input, profiles, guides, profMinus, guidMinus, profParms, guidParms,
                  profReversed, guidReversed>>
  BY DEF curves, parms
<1>2. NetworkType' /\ CurvesArePermuted'
  BY <1>1, IInvParts DEF NetworkInv, NetworkType, CurvesArePermuted
<1>3. ParametersFollowCurves' /\ IndicesTellTheDirection'
  BY <1>1 DEF IInv, ParametersFollowCurves, IndicesTellTheDirection
<1> QED
  BY <1>2, <1>3 DEF NetworkInv

LEMMA QuietSteps ==
  ASSUME IInv, NoStart \/ NextPass \/ GuidesSorted \/ ProfilesSorted
                       \/ ProfilesChecked \/ GuidesChecked \/ Stopped
  PROVE  IInv'
<1>1. UNCHANGED <<input, curves, parms>>
  BY DEF NoStart, NextPass, GuidesSorted, ProfilesSorted, ProfilesChecked,
         GuidesChecked, Stopped, vars
<1>2. NetworkInv' /\ IndicesTellTheDirection'
  BY <1>1, QuietKeeps
<1>3. Counters'
  BY SizeAssumption DEF IInv, TypeOK, Counters, Phase, NoStart, NextPass, GuidesSorted,
     ProfilesSorted, ProfilesChecked, GuidesChecked, Stopped, vars
<1>4. Unmarked'
  <2>1. profMinus' = profMinus /\ guidMinus' = guidMinus
    BY <1>1 DEF curves
  <2>2. CASE NoStart \/ NextPass \/ GuidesSorted \/ Stopped
    BY <2>1, <2>2 DEF IInv, Unmarked, NoStart, NextPass, GuidesSorted, Stopped, vars
  <2>3. CASE ProfilesSorted \/ ProfilesChecked \/ GuidesChecked
    BY <2>1, <2>3 DEF IInv, Unmarked, ProfilesSorted, ProfilesChecked, GuidesChecked
  <2> QED
    BY <2>2, <2>3
<1> QED
  BY <1>2, <1>3, <1>4, IInvParts

LEMMA CompareGuidesStep ==
  ASSUME IInv, CompareGuides
  PROVE  IInv'
<1>1. /\ pc = "sortGuides" /\ pc' = pc /\ n' = n /\ k' = k + 1 /\ input' = input
      /\ k \in Nat /\ n \in Nat /\ k >= 1 /\ n <= NGuides /\ k < n - 1
  BY DEF CompareGuides, IInv, TypeOK
<1>2. k \in Guide /\ k + 1 \in Guide
  BY <1>1, SizeAssumption DEF Guide
<1>3. Counters'
  BY <1>1 DEF IInv, TypeOK, Counters
<1>4. CASE GuidesOutOfOrder(k)
  <2>1. /\ Permute(Transposed(0, 0), Transposed(k, k + 1))
        /\ UNCHANGED <<profReversed, guidReversed>>
    BY <1>4 DEF CompareGuides, swapGuides, Nothing
  <2>2. NetworkInv' /\ IndicesTellTheDirection'
    BY <1>1, <1>2, <2>1, Places, SwapKeeps
  <2>3. Unmarked'
    <3>1. /\ \A x \in Profile : profMinus'[x] = profMinus[x]
          /\ \A x \in Guide : guidMinus'[x] = guidMinus[Transposed(k, k + 1)[x]]
      BY <2>1, NothingMoves DEF Permute, Nothing
    <3>2. \A x \in Guide : x >= 1 => /\ Transposed(k, k + 1)[x] \in Guide
                                     /\ Transposed(k, k + 1)[x] >= 1
      BY <1>1, <1>2, Places DEF Transposed
    <3> QED
      BY <1>1, <3>1, <3>2 DEF IInv, Unmarked
  <2> QED
    BY <1>3, <2>2, <2>3, IInvParts
<1>5. CASE ~ GuidesOutOfOrder(k)
  <2>1. UNCHANGED <<curves, parms>>
    BY <1>5 DEF CompareGuides
  <2>2. Unmarked'
    BY <1>1, <2>1 DEF IInv, Unmarked, curves
  <2> QED
    BY <1>1, <1>3, <2>1, <2>2, QuietKeeps, IInvParts
<1> QED
  BY <1>4, <1>5

LEMMA CompareProfilesStep ==
  ASSUME IInv, CompareProfiles
  PROVE  IInv'
<1>1. /\ pc = "sortProfiles" /\ pc' = pc /\ n' = n /\ k' = k + 1 /\ input' = input
      /\ k \in Nat /\ n \in Nat /\ k >= 1 /\ n <= NProfiles /\ k < n - 1
  BY DEF CompareProfiles, IInv, TypeOK
<1>2. k \in Profile /\ k + 1 \in Profile
  BY <1>1, SizeAssumption DEF Profile
<1>3. Counters'
  BY <1>1 DEF IInv, TypeOK, Counters
<1>4. CASE ProfilesOutOfOrder(k)
  <2>1. /\ Permute(Transposed(k, k + 1), Transposed(0, 0))
        /\ UNCHANGED <<profReversed, guidReversed>>
    BY <1>4 DEF CompareProfiles, swapProfiles, Nothing
  <2>2. NetworkInv' /\ IndicesTellTheDirection'
    BY <1>1, <1>2, <2>1, Places, SwapKeeps
  <2>3. Unmarked'
    <3>1. /\ \A x \in Profile : profMinus'[x] = profMinus[Transposed(k, k + 1)[x]]
          /\ \A x \in Guide : guidMinus'[x] = guidMinus[x]
      BY <2>1, NothingMoves DEF Permute, Nothing
    <3>2. \A x \in Profile : Transposed(k, k + 1)[x] \in Profile
      BY <1>2, TransposedProfiles
    <3> QED
      BY <1>1, <3>1, <3>2 DEF IInv, Unmarked
  <2> QED
    BY <1>3, <2>2, <2>3, IInvParts
<1>5. CASE ~ ProfilesOutOfOrder(k)
  <2>1. UNCHANGED <<curves, parms>>
    BY <1>5 DEF CompareProfiles
  <2>2. Unmarked'
    BY <1>1, <2>1 DEF IInv, Unmarked, curves
  <2> QED
    BY <1>1, <1>3, <2>1, <2>2, QuietKeeps, IInvParts
<1> QED
  BY <1>4, <1>5

LEMMA CheckProfileStep ==
  ASSUME IInv, CheckProfile
  PROVE  IInv'
<1>1. /\ pc = "reverseProfiles" /\ pc' = pc /\ k' = k + 1 /\ input' = input /\ n' = n
      /\ k \in Nat /\ k >= 1 /\ k \in Profile
  BY SizeAssumption DEF CheckProfile, IInv, TypeOK, Profile
<1>2. Counters'
  BY <1>1 DEF IInv, TypeOK, Counters
<1>3. CASE RunsBackProfile(k)
  <2>1. reverseProfile(k) /\ profMinus[k] = 0
    BY <1>1, <1>3 DEF CheckProfile, IInv, Unmarked
  <2>2. NetworkInv' /\ IndicesTellTheDirection'
    BY <1>1, <2>1, IInvParts, ReverseProfileKeeps, ReverseProfileKeepsIndices
  <2>3. Unmarked'
    <3>1. profMinus' = [profMinus EXCEPT ![k] = profMinus[k] + 1] /\ guidMinus' = guidMinus
      BY <2>1 DEF reverseProfile
    <3>2. \A x \in Profile : x >= k + 1 => profMinus'[x] = profMinus[x] /\ x >= k
      BY <1>1, <3>1, Places DEF IInv, TypeOK
    <3> QED
      BY <1>1, <3>1, <3>2 DEF IInv, Unmarked
  <2> QED
    BY <1>2, <2>2, <2>3, IInvParts
<1>4. CASE ~ RunsBackProfile(k)
  <2>1. UNCHANGED <<curves, parms>>
    BY <1>4 DEF CheckProfile
  <2>2. Unmarked'
    <3>1. profMinus' = profMinus /\ guidMinus' = guidMinus
      BY <2>1 DEF curves
    <3>2. \A x \in Profile : x >= k + 1 => x >= k
      BY <1>1, Places
    <3> QED
      BY <1>1, <3>1, <3>2 DEF IInv, Unmarked
  <2> QED
    BY <1>1, <1>2, <2>1, <2>2, QuietKeeps, IInvParts
<1> QED
  BY <1>3, <1>4

LEMMA CheckGuideStep ==
  ASSUME IInv, CheckGuide
  PROVE  IInv'
<1>1. /\ pc = "reverseGuides" /\ pc' = pc /\ k' = k + 1 /\ input' = input /\ n' = n
      /\ k \in Nat /\ k >= 1 /\ k \in Guide
  BY SizeAssumption DEF CheckGuide, IInv, TypeOK, Guide
<1>2. Counters'
  BY <1>1 DEF IInv, TypeOK, Counters
<1>3. CASE RunsBackGuide(k)
  <2>1. reverseGuide(k) /\ guidMinus[k] = 0
    BY <1>1, <1>3 DEF CheckGuide, IInv, Unmarked
  <2>2. NetworkInv' /\ IndicesTellTheDirection'
    BY <1>1, <2>1, IInvParts, ReverseGuideKeeps, ReverseGuideKeepsIndices
  <2>3. Unmarked'
    <3>1. guidMinus' = [guidMinus EXCEPT ![k] = guidMinus[k] + 1]
      BY <2>1 DEF reverseGuide
    <3>2. \A x \in Guide : x >= k + 1 => guidMinus'[x] = guidMinus[x] /\ x >= k
      BY <1>1, <3>1, Places DEF IInv, TypeOK
    <3> QED
      BY <1>1, <3>2 DEF IInv, Unmarked
  <2> QED
    BY <1>2, <2>2, <2>3, IInvParts
<1>4. CASE ~ RunsBackGuide(k)
  <2>1. UNCHANGED <<curves, parms>>
    BY <1>4 DEF CheckGuide
  <2>2. Unmarked'
    <3>1. guidMinus' = guidMinus
      BY <2>1 DEF curves
    <3>2. \A x \in Guide : x >= k + 1 => x >= k
      BY <1>1, Places
    <3> QED
      BY <1>1, <3>1, <3>2 DEF IInv, Unmarked
  <2> QED
    BY <1>1, <1>2, <2>1, <2>2, QuietKeeps, IInvParts
<1> QED
  BY <1>3, <1>4

LEMMA NextIInv == IInv /\ [Next]_vars => IInv'
<1> SUFFICES ASSUME IInv, [Next]_vars PROVE IInv'
  OBVIOUS
<1>1. CASE StartAtCorner \/ StartInLoop
  BY <1>1, StartSteps
<1>2. CASE ReverseFirstGuide
  BY <1>2, ReverseFirstGuideStep
<1>3. CASE CompareGuides
  BY <1>3, CompareGuidesStep
<1>4. CASE CompareProfiles
  BY <1>4, CompareProfilesStep
<1>5. CASE CheckProfile
  BY <1>5, CheckProfileStep
<1>6. CASE CheckGuide
  BY <1>6, CheckGuideStep
<1>7. CASE NoStart \/ NextPass \/ GuidesSorted \/ ProfilesSorted
             \/ ProfilesChecked \/ GuidesChecked \/ Stopped
  BY <1>7, QuietSteps
<1>8. CASE UNCHANGED vars
  <2>1. UNCHANGED <<input, curves, parms>> /\ UNCHANGED <<pc, n, k>>
    BY <1>8 DEF vars
  <2>2. Counters' /\ Unmarked'
    BY <2>1 DEF IInv, TypeOK, Counters, Unmarked, curves
  <2> QED
    BY <2>1, <2>2, QuietKeeps, IInvParts
<1> QED
  BY <1>1, <1>2, <1>3, <1>4, <1>5, <1>6, <1>7, <1>8 DEF Next

LEMMA Inductive == Spec => []IInv
<1> QED
  BY InitIInv, NextIInv, PTL DEF Spec

-----------------------------------------------------------------------------
(***************************************************************************)
(* What holds for every network, of any size, grid or not.                 *)
(***************************************************************************)

\* The loops of Perform stay inside the arrays and the matrices.
THEOREM SorterTypeCorrect == Spec => []TypeOK
<1>1. IInv => TypeOK
  BY DEF IInv
<1> QED
  BY <1>1, Inductive, PTL

\* swapProfiles and swapGuides lose no curve and double none.
THEOREM SorterPermutes == Spec => []CurvesArePermuted
<1>1. IInv => CurvesArePermuted
  BY DEF IInv
<1> QED
  BY <1>1, Inductive, PTL

\* At every moment of Perform, both matrices say where the curves, in their
\* present order and direction, meet.
THEOREM ParametersStayTrue == Spec => []ParametersFollowCurves
<1>1. IInv => ParametersFollowCurves
  BY DEF IInv
<1> QED
  BY <1>1, Inductive, PTL

\* ProfileIndices and GuideIndices tell which curves run backwards.
THEOREM IndicesStayTrue == Spec => []IndicesTellTheDirection
<1>1. IInv => IndicesTellTheDirection
  BY DEF IInv
<1> QED
  BY <1>1, Inductive, PTL

-----------------------------------------------------------------------------
(***************************************************************************)
(* Grids: CurveNetworkSorter brings every one into its order, whatever its *)
(* size, the order and the directions its curves are given in, and whether *)
(* the caller has curves or only the parameters: the search for the start, *)
(* the two bubble sorts and the two rounds of reversals, each with what    *)
(* the next one relies on.                                                 *)
(***************************************************************************)

(***************************************************************************)
(* Rows and columns.                                                       *)
(***************************************************************************)
Ascending(f, S) == \A a, b \in S : a < b => f[a] < f[b]
Descending(f, S) == \A a, b \in S : a < b => f[b] < f[a]
IsLeastAt(f, x, S) == \A a \in S : f[x] <= f[a]
IsGreatestAt(f, x, S) == \A a \in S : f[a] <= f[x]

\* What lies at n or behind it is in its place.
Settled(f, n1, S) == \A a, b \in S : a < b /\ b >= n1 => f[a] <= f[b]

\* A pass over the places before n1 has brought the greatest of those up to k1
\* to k1.
InPass(f, S, n1, k1) ==
  /\ Settled(f, n1, S)
  /\ n1 > 1 => k1 <= n1 - 1 /\ \A a \in S : a <= k1 => f[a] <= f[k1]

LEMMA RowsAreInt ==
  ASSUME NEW m \in Matrix
  PROVE  /\ \A i \in Profile : Row(m, i) \in [Guide -> Int]
         /\ \A j \in Guide : Col(m, j) \in [Profile -> Int]
BY DEF Matrix, Row, Col

LEMMA AlikePermuted ==
  ASSUME NEW S, NEW g, \A x \in S : g[x] \in S, NEW f, NEW h, Alike(f, h, S),
         NEW f1, NEW h1, \A x \in S : f1[x] = f[g[x]] /\ h1[x] = h[g[x]]
  PROVE  Alike(f1, h1, S)
BY DEF Alike

LEMMA NoneTwicePermuted ==
  ASSUME NEW S, NEW g, IsPermutation(g, S), NEW f, NoneTwice(f, S),
         NEW f1, \A x \in S : f1[x] = f[g[x]]
  PROVE  NoneTwice(f1, S)
BY DEF NoneTwice, IsPermutation

\* f1 is f or its mirror image.
IsMirror(f1, f, S) ==
  \/ \A x \in S : f1[x] = f[x]
  \/ \E sum \in Int : \A x \in S : f1[x] = sum - f[x]

LEMMA MirrorOrder ==
  ASSUME NEW S, NEW f \in [S -> Int], NEW f1, IsMirror(f1, f, S)
  PROVE  \/ \A a, b \in S : f1[a] < f1[b] <=> f[a] < f[b]
         \/ \A a, b \in S : f1[a] < f1[b] <=> f[b] < f[a]
<1>1. CASE \A x \in S : f1[x] = f[x]
  BY <1>1
<1>2. ASSUME NEW sum \in Int, \A x \in S : f1[x] = sum - f[x]
      PROVE  \A a, b \in S : f1[a] < f1[b] <=> f[b] < f[a]
  <2>1. ASSUME NEW a \in S, NEW b \in S
        PROVE  f1[a] < f1[b] <=> f[b] < f[a]
    <3>1. f[a] \in Int /\ f[b] \in Int /\ f1[a] = sum - f[a] /\ f1[b] = sum - f[b]
      BY <1>2
    <3> QED
      BY <3>1
  <2> QED
    BY <2>1
<1> QED
  BY <1>1, <1>2 DEF IsMirror

LEMMA AlikeMirrored ==
  ASSUME NEW S, NEW f \in [S -> Int], NEW h \in [S -> Int], Alike(f, h, S),
         NEW f1, NEW h1, IsMirror(f1, f, S), IsMirror(h1, h, S)
  PROVE  Alike(f1, h1, S)
<1>1. \/ \A a, b \in S : f1[a] < f1[b] <=> f[a] < f[b]
      \/ \A a, b \in S : f1[a] < f1[b] <=> f[b] < f[a]
  BY MirrorOrder
<1>2. \/ \A a, b \in S : h1[a] < h1[b] <=> h[a] < h[b]
      \/ \A a, b \in S : h1[a] < h1[b] <=> h[b] < h[a]
  BY MirrorOrder
<1> QED
  BY <1>1, <1>2, Zenon DEF Alike

LEMMA NoneTwiceMirrored ==
  ASSUME NEW S, NEW f \in [S -> Int], NoneTwice(f, S), NEW f1, IsMirror(f1, f, S)
  PROVE  NoneTwice(f1, S)
<1>1. ASSUME NEW a \in S, NEW b \in S, f1[a] = f1[b]
      PROVE  f[a] = f[b]
  <2>1. f[a] \in Int /\ f[b] \in Int
    OBVIOUS
  <2> QED
    BY <1>1, <2>1 DEF IsMirror
<1> QED
  BY <1>1 DEF NoneTwice

\* A row that is like an ascending one ascends or descends.
LEMMA AlikeAscending ==
  ASSUME NEW S \in SUBSET Int, NEW f \in [S -> Int], NEW h \in [S -> Int],
         Alike(f, h, S), Ascending(f, S)
  PROVE  Ascending(h, S) \/ Descending(h, S)
BY DEF Alike, Ascending, Descending

\* Where the one is least the other is least or greatest.
LEMMA AlikeExtremes ==
  ASSUME NEW S, NEW f \in [S -> Int], NEW h \in [S -> Int],
         Alike(f, h, S), NEW x \in S, IsLeastAt(f, x, S)
  PROVE  IsLeastAt(h, x, S) \/ IsGreatestAt(h, x, S)
<1>1. ASSUME NEW a \in S
      PROVE  ~ f[a] < f[x]
  BY DEF IsLeastAt
<1>2. CASE \A a, b \in S : f[a] < f[b] <=> h[a] < h[b]
  <2>1. \A a \in S : ~ h[a] < h[x]
    BY <1>1, <1>2
  <2> QED
    BY <2>1 DEF IsLeastAt
<1>3. CASE \A a, b \in S : f[a] < f[b] <=> h[b] < h[a]
  <2>1. \A a \in S : ~ h[x] < h[a]
    BY <1>1, <1>3
  <2> QED
    BY <2>1 DEF IsGreatestAt
<1> QED
  BY <1>2, <1>3 DEF Alike
-----------------------------------------------------------------------------
(***************************************************************************)
(* The invariant: what each part of Perform leaves to the next.            *)
(***************************************************************************)
GridOrder == RowsAlike(profParms) /\ ColsAlike(guidParms)

StartIsFound ==
  /\ pc # "thrown"
  /\ pc = "start" => \A j \in Guide : \E i \in Profile : guidParms[i][j] > 0
  /\ pc # "start" => IsLeastAt(Row(profParms, 0), 0, Guide)
  /\ pc = "reverseFirstGuide" => IsGreatestAt(Col(guidParms, 0), 0, Profile)
  /\ pc \notin {"start", "reverseFirstGuide"} => IsLeastAt(Col(guidParms, 0), 0, Profile)

GuidesInOrder ==
  /\ pc = "sortGuides" => InPass(Row(profParms, 0), Guide, n, k)
  /\ pc \in {"sortProfiles", "reverseProfiles", "reverseGuides", "performed"} =>
       Ascending(Row(profParms, 0), Guide)

ProfilesInOrder ==
  /\ pc = "sortProfiles" => InPass(Col(guidParms, 0), Profile, n, k)
  /\ pc \in {"reverseProfiles", "reverseGuides", "performed"} =>
       Ascending(Col(guidParms, 0), Profile)

CurvesRunForward ==
  /\ pc = "reverseProfiles" =>
       \A i \in Profile : i < k => Ascending(Row(profParms, i), Guide)
  /\ pc \in {"reverseGuides", "performed"} =>
       \A i \in Profile : Ascending(Row(profParms, i), Guide)
  /\ pc = "reverseGuides" =>
       \A j \in Guide : j < k => Ascending(Col(guidParms, j), Profile)
  /\ pc = "performed" => \A j \in Guide : Ascending(Col(guidParms, j), Profile)

GridInv ==
  GridOrder /\ StartIsFound /\ GuidesInOrder /\ ProfilesInOrder /\ CurvesRunForward

-----------------------------------------------------------------------------
(***************************************************************************)
(* The order of the curves survives swaps and reversals.                   *)
(***************************************************************************)
LEMMA GridOrderPermuted ==
  ASSUME GridOrder, NEW p, NEW g, IsPermutation(p, Profile),
         IsPermutation(g, Guide), Permute(p, g)
  PROVE  GridOrder'
<1>1. /\ profParms' = [i \in Profile |-> [j \in Guide |-> profParms[p[i]][g[j]]]]
      /\ guidParms' = [i \in Profile |-> [j \in Guide |-> guidParms[p[i]][g[j]]]]
  BY DEF Permute
<1>2. RowsAlike(profParms')
  <2>1. ASSUME NEW i \in Profile
        PROVE  \A j \in Guide : Row(profParms', i)[j] = Row(profParms, p[i])[g[j]]
    BY <1>1 DEF Row, IsPermutation
  <2>2. ASSUME NEW i \in Profile, NEW x \in Profile
        PROVE  /\ NoneTwice(Row(profParms', i), Guide)
               /\ Alike(Row(profParms', i), Row(profParms', x), Guide)
    <3>1. /\ p[i] \in Profile /\ p[x] \in Profile
          /\ \A j \in Guide : g[j] \in Guide
      BY DEF IsPermutation
    <3>2. /\ NoneTwice(Row(profParms, p[i]), Guide)
          /\ Alike(Row(profParms, p[i]), Row(profParms, p[x]), Guide)
      BY <3>1 DEF GridOrder, RowsAlike
    <3>3. NoneTwice(Row(profParms', i), Guide)
      BY <2>1, <3>2, NoneTwicePermuted
    <3>4. Alike(Row(profParms', i), Row(profParms', x), Guide)
      BY <2>1, <3>1, <3>2, AlikePermuted
    <3> QED
      BY <3>3, <3>4
  <2> QED
    BY <2>2 DEF RowsAlike
<1>3. ColsAlike(guidParms')
  <2>1. ASSUME NEW j \in Guide
        PROVE  \A i \in Profile : Col(guidParms', j)[i] = Col(guidParms, g[j])[p[i]]
    BY <1>1 DEF Col, IsPermutation
  <2>2. ASSUME NEW j \in Guide, NEW x \in Guide
        PROVE  /\ NoneTwice(Col(guidParms', j), Profile)
               /\ Alike(Col(guidParms', j), Col(guidParms', x), Profile)
    <3>1. /\ g[j] \in Guide /\ g[x] \in Guide
          /\ \A i \in Profile : p[i] \in Profile
      BY DEF IsPermutation
    <3>2. /\ NoneTwice(Col(guidParms, g[j]), Profile)
          /\ Alike(Col(guidParms, g[j]), Col(guidParms, g[x]), Profile)
      BY <3>1 DEF GridOrder, ColsAlike
    <3>3. NoneTwice(Col(guidParms', j), Profile)
      BY <2>1, <3>2, NoneTwicePermuted
    <3>4. Alike(Col(guidParms', j), Col(guidParms', x), Profile)
      BY <2>1, <3>1, <3>2, AlikePermuted
    <3> QED
      BY <3>3, <3>4
  <2> QED
    BY <2>2 DEF ColsAlike
<1> QED
  BY <1>2, <1>3 DEF GridOrder

\* The matrices that a reversal leaves: every row of the one is what it was or
\* its mirror image, and so is every column of the other.
LEMMA GridOrderMirrored ==
  ASSUME GridOrder, profParms \in Matrix, guidParms \in Matrix,
         \A i \in Profile : IsMirror(Row(profParms', i), Row(profParms, i), Guide),
         \A j \in Guide : IsMirror(Col(guidParms', j), Col(guidParms, j), Profile)
  PROVE  GridOrder'
<1>1. /\ \A i \in Profile : Row(profParms, i) \in [Guide -> Int]
      /\ \A j \in Guide : Col(guidParms, j) \in [Profile -> Int]
  BY RowsAreInt
<1>2. RowsAlike(profParms')
  <2>1. ASSUME NEW i \in Profile, NEW x \in Profile
        PROVE  /\ NoneTwice(Row(profParms', i), Guide)
               /\ Alike(Row(profParms', i), Row(profParms', x), Guide)
    <3>1. /\ NoneTwice(Row(profParms, i), Guide)
          /\ Alike(Row(profParms, i), Row(profParms, x), Guide)
      BY DEF GridOrder, RowsAlike
    <3>2. NoneTwice(Row(profParms', i), Guide)
      BY <1>1, <3>1, NoneTwiceMirrored
    <3>3. Alike(Row(profParms', i), Row(profParms', x), Guide)
      BY <1>1, <3>1, AlikeMirrored
    <3> QED
      BY <3>2, <3>3
  <2> QED
    BY <2>1 DEF RowsAlike
<1>3. ColsAlike(guidParms')
  <2>1. ASSUME NEW j \in Guide, NEW x \in Guide
        PROVE  /\ NoneTwice(Col(guidParms', j), Profile)
               /\ Alike(Col(guidParms', j), Col(guidParms', x), Profile)
    <3>1. /\ NoneTwice(Col(guidParms, j), Profile)
          /\ Alike(Col(guidParms, j), Col(guidParms, x), Profile)
      BY DEF GridOrder, ColsAlike
    <3>2. NoneTwice(Col(guidParms', j), Profile)
      BY <1>1, <3>1, NoneTwiceMirrored
    <3>3. Alike(Col(guidParms', j), Col(guidParms', x), Profile)
      BY <1>1, <3>1, AlikeMirrored
    <3> QED
      BY <3>2, <3>3
  <2> QED
    BY <2>1 DEF ColsAlike
<1> QED
  BY <1>2, <1>3 DEF GridOrder

LEMMA ReversedProfile ==
  ASSUME NetworkType, NEW i \in Profile, reverseProfile(i)
  PROVE  /\ guidParms' = guidParms
         /\ \E sum \in Int : \A j \in Guide : Row(profParms', i)[j] = sum - Row(profParms, i)[j]
         /\ \A x \in Profile : x # i => Row(profParms', x) = Row(profParms, x)
<1> DEFINE sum == ProfileSum(profParms, i, profiles[i])
<1>1. sum \in Int
  BY SumsAreInt
<1>2. guidParms' = guidParms /\ profParms' = MirrorRow(profParms, i, sum)
  BY DEF reverseProfile
<1>3. profParms \in Matrix
  BY DEF NetworkType
<1> HIDE DEF sum
<1>4. \A j \in Guide : Row(profParms', i)[j] = sum - Row(profParms, i)[j]
  BY <1>2, <1>3 DEF Row, MirrorRow, Matrix
<1>5. \A x \in Profile : x # i => Row(profParms', x) = Row(profParms, x)
  BY <1>2, <1>3 DEF Row, MirrorRow, Matrix
<1> QED
  BY <1>1, <1>2, <1>4, <1>5

LEMMA ReversedGuide ==
  ASSUME NetworkType, NEW j \in Guide, reverseGuide(j)
  PROVE  /\ profParms' = profParms
         /\ \E sum \in Int : \A i \in Profile : Col(guidParms', j)[i] = sum - Col(guidParms, j)[i]
         /\ \A x \in Guide : x # j => Col(guidParms', x) = Col(guidParms, x)
<1> DEFINE sum == GuideSum(guidParms, j, guides[j])
<1>1. sum \in Int
  BY SumsAreInt
<1>2. profParms' = profParms /\ guidParms' = MirrorCol(guidParms, j, sum)
  BY DEF reverseGuide
<1>3. guidParms \in Matrix
  BY DEF NetworkType
<1> HIDE DEF sum
<1>4. \A i \in Profile : Col(guidParms', j)[i] = sum - Col(guidParms, j)[i]
  BY <1>2, <1>3 DEF Col, MirrorCol, Matrix
<1>5. \A x \in Guide : x # j => Col(guidParms', x) = Col(guidParms, x)
  BY <1>2, <1>3 DEF Col, MirrorCol, Matrix
<1> QED
  BY <1>1, <1>2, <1>4, <1>5

LEMMA ReversalKeepsOrder ==
  ASSUME NetworkType, GridOrder,
         \/ \E i \in Profile : reverseProfile(i)
         \/ \E j \in Guide : reverseGuide(j)
  PROVE  GridOrder'
<1>1. profParms \in Matrix /\ guidParms \in Matrix
  BY DEF NetworkType
<1>2. ASSUME NEW i \in Profile, reverseProfile(i)
      PROVE  GridOrder'
  <2>1. \A j \in Guide : IsMirror(Col(guidParms', j), Col(guidParms, j), Profile)
    BY <1>2, ReversedProfile DEF IsMirror
  <2>2. \A x \in Profile : IsMirror(Row(profParms', x), Row(profParms, x), Guide)
    BY <1>2, ReversedProfile DEF IsMirror
  <2> QED
    BY <1>1, <2>1, <2>2, GridOrderMirrored
<1>3. ASSUME NEW j \in Guide, reverseGuide(j)
      PROVE  GridOrder'
  <2>1. \A x \in Guide : IsMirror(Col(guidParms', x), Col(guidParms, x), Profile)
    BY <1>3, ReversedGuide DEF IsMirror
  <2>2. \A i \in Profile : IsMirror(Row(profParms', i), Row(profParms, i), Guide)
    BY <1>3, ReversedGuide DEF IsMirror
  <2> QED
    BY <1>1, <2>1, <2>2, GridOrderMirrored
<1> QED
  BY <1>2, <1>3

-----------------------------------------------------------------------------
(***************************************************************************)
(* The search for the start.                                               *)
(***************************************************************************)
LEMMA FirstLeastIsLeast ==
  ASSUME NEW S \in SUBSET Nat, IsFiniteSet(S), S # {}, NEW f \in [S -> Int]
  PROVE  FirstLeast(f, S) \in S /\ IsLeastAt(f, FirstLeast(f, S), S)
<1> DEFINE x == FirstLeast(f, S)
<1>1. \E z \in S : \A y \in S : f[z] < f[y] \/ (f[z] = f[y] /\ z <= y)
  BY FirstLeastPlace
<1>2. x \in S /\ \A y \in S : f[x] < f[y] \/ (f[x] = f[y] /\ x <= y)
  BY <1>1, Zenon DEF FirstLeast
<1> HIDE DEF x
<1>3. ASSUME NEW y \in S
      PROVE  f[x] <= f[y]
  <2>1. f[x] \in Int /\ f[y] \in Int
    BY <1>2
  <2> QED
    BY <1>2, <2>1
<1> QED
  BY <1>2, <1>3 DEF IsLeastAt, x

\* The search finds the greatest if there is a positive one.
LEMMA FirstGreatestIsGreatest ==
  ASSUME NEW S \in SUBSET Nat, IsFiniteSet(S), NEW f \in [S -> Int],
         \E x \in S : f[x] > 0
  PROVE  FirstGreatest(f, S) \in S /\ IsGreatestAt(f, FirstGreatest(f, S), S)
<1> DEFINE positive == {x \in S : f[x] > 0}
           negated  == [x \in positive |-> - f[x]]
           top == FirstLeast(negated, positive)
<1>1. /\ IsFiniteSet(positive) /\ positive \in SUBSET Nat /\ positive # {}
      /\ negated \in [positive -> Int]
  <2>1. positive \subseteq S /\ positive # {} /\ \A x \in positive : f[x] \in Int
    OBVIOUS
  <2>2. IsFiniteSet(positive)
    BY <2>1, FS_Subset
  <2> HIDE DEF positive
  <2> QED
    BY <2>1, <2>2
<1>2. top \in positive /\ IsLeastAt(negated, top, positive)
  <2> HIDE DEF positive, negated, top
  <2> QED
    BY <1>1, FirstLeastIsLeast DEF top
<1>3. FirstGreatest(f, S) = top
  BY <1>1 DEF FirstGreatest
<1>4. ASSUME NEW y \in S
      PROVE  f[y] <= f[top]
  <2> HIDE DEF top
  <2>1. f[top] \in Int /\ f[y] \in Int /\ f[top] > 0
    BY <1>2
  <2>2. CASE f[y] > 0
    <3>1. y \in positive
      BY <2>2
    <3>2. - f[top] <= - f[y]
      BY <1>2, <3>1 DEF IsLeastAt
    <3> QED
      BY <2>1, <3>2
  <2> QED
    BY <2>1, <2>2
<1> HIDE DEF top
<1> QED
  BY <1>2, <1>3, <1>4 DEF IsGreatestAt

\* There is one extreme place where no parameter comes twice.
LEMMA OneExtreme ==
  ASSUME NEW S, NEW f \in [S -> Int], NoneTwice(f, S), NEW x \in S, NEW y \in S,
         \/ IsLeastAt(f, x, S) /\ IsLeastAt(f, y, S)
         \/ IsGreatestAt(f, x, S) /\ IsGreatestAt(f, y, S)
  PROVE  x = y
<1>1. f[x] \in Int /\ f[y] \in Int /\ (f[x] = f[y] => x = y)
  BY DEF NoneTwice
<1> QED
  BY <1>1 DEF IsLeastAt, IsGreatestAt

LEMMA ColumnExtremes ==
  ASSUME NetworkType, \A j \in Guide : \E i \in Profile : guidParms[i][j] > 0,
         NEW j \in Guide
  PROVE  /\ minColIndex(guidParms, j) \in Profile
         /\ IsLeastAt(Col(guidParms, j), minColIndex(guidParms, j), Profile)
         /\ maxColIndex(guidParms, j) \in Profile
         /\ IsGreatestAt(Col(guidParms, j), maxColIndex(guidParms, j), Profile)
<1>1. Col(guidParms, j) \in [Profile -> Int]
  BY RowsAreInt DEF NetworkType
<1>2. \E i \in Profile : Col(guidParms, j)[i] > 0
  BY DEF Col
<1>3. /\ minColIndex(guidParms, j) \in Profile
      /\ IsLeastAt(Col(guidParms, j), minColIndex(guidParms, j), Profile)
  BY <1>1, Places, FirstLeastIsLeast DEF minColIndex
<1>4. /\ maxColIndex(guidParms, j) \in Profile
      /\ IsGreatestAt(Col(guidParms, j), maxColIndex(guidParms, j), Profile)
  BY <1>1, <1>2, Places, FirstGreatestIsGreatest DEF maxColIndex
<1> QED
  BY <1>3, <1>4

\* The first profile along any guide begins at a guide along which it is the
\* first or the last.
LEMMA StartExists ==
  ASSUME NetworkType, GridOrder, \A j \in Guide : \E i \in Profile : guidParms[i][j] > 0
  PROVE  CommonStarts # {} \/ LoopStarts # {}
<1> DEFINE i == minColIndex(guidParms, 0)
           g == FirstGuideOf(i)
<1>1. i \in Profile /\ IsLeastAt(Col(guidParms, 0), i, Profile)
  BY Places, ColumnExtremes
<1>2. g \in Guide
  BY <1>1, GuideFound DEF NetworkType
<1> HIDE DEF i, g
<1>3. /\ Col(guidParms, 0) \in [Profile -> Int] /\ Col(guidParms, g) \in [Profile -> Int]
      /\ Alike(Col(guidParms, 0), Col(guidParms, g), Profile)
      /\ NoneTwice(Col(guidParms, g), Profile)
  BY <1>2, Places, RowsAreInt DEF NetworkType, GridOrder, ColsAlike
<1>4. IsLeastAt(Col(guidParms, g), i, Profile) \/ IsGreatestAt(Col(guidParms, g), i, Profile)
  BY <1>1, <1>3, AlikeExtremes
<1>5. i = minColIndex(guidParms, g) \/ i = maxColIndex(guidParms, g)
  BY <1>1, <1>2, <1>3, <1>4, ColumnExtremes, OneExtreme
<1> QED
  BY <1>1, <1>5 DEF CommonStarts, LoopStarts, g

LEMMA StartIsExtreme ==
  ASSUME NetworkType, \A j \in Guide : \E i \in Profile : guidParms[i][j] > 0,
         NEW i \in Profile
  PROVE  /\ FirstGuideOf(i) \in Guide
         /\ IsLeastAt(Row(profParms, i), FirstGuideOf(i), Guide)
         /\ i \in CommonStarts => IsLeastAt(Col(guidParms, FirstGuideOf(i)), i, Profile)
         /\ i \in LoopStarts => IsGreatestAt(Col(guidParms, FirstGuideOf(i)), i, Profile)
<1>1. Row(profParms, i) \in [Guide -> Int]
  BY RowsAreInt DEF NetworkType
<1>2. /\ FirstGuideOf(i) \in Guide
      /\ IsLeastAt(Row(profParms, i), FirstGuideOf(i), Guide)
  BY <1>1, Places, FirstLeastIsLeast DEF FirstGuideOf, minRowIndex
<1>3. /\ IsLeastAt(Col(guidParms, FirstGuideOf(i)), minColIndex(guidParms, FirstGuideOf(i)), Profile)
      /\ IsGreatestAt(Col(guidParms, FirstGuideOf(i)), maxColIndex(guidParms, FirstGuideOf(i)), Profile)
  BY <1>2, ColumnExtremes
<1> QED
  BY <1>2, <1>3 DEF CommonStarts, LoopStarts

\* The matrices after the start curves were put first.
LEMMA StartPutFirst ==
  ASSUME NetworkType, NEW i \in Profile, NEW g \in Guide,
         Permute(Transposed(0, i), Transposed(0, g))
  PROVE  /\ IsLeastAt(Row(profParms, i), g, Guide) => IsLeastAt(Row(profParms', 0), 0, Guide)
         /\ IsLeastAt(Col(guidParms, g), i, Profile) => IsLeastAt(Col(guidParms', 0), 0, Profile)
         /\ IsGreatestAt(Col(guidParms, g), i, Profile) => IsGreatestAt(Col(guidParms', 0), 0, Profile)
<1> DEFINE p == Transposed(0, i)
           q == Transposed(0, g)
<1>1. /\ p[0] = i /\ q[0] = g /\ 0 \in Profile /\ 0 \in Guide
      /\ \A x \in Profile : p[x] \in Profile
      /\ \A x \in Guide : q[x] \in Guide
  BY Places, TransposedProfiles, TransposedGuides DEF Transposed
<1>2. /\ profParms' = [x \in Profile |-> [y \in Guide |-> profParms[p[x]][q[y]]]]
      /\ guidParms' = [x \in Profile |-> [y \in Guide |-> guidParms[p[x]][q[y]]]]
  BY DEF Permute
<1> HIDE DEF p, q
<1>3. \A y \in Guide : Row(profParms', 0)[y] = Row(profParms, i)[q[y]]
  BY <1>1, <1>2 DEF Row
<1>4. \A x \in Profile : Col(guidParms', 0)[x] = Col(guidParms, g)[p[x]]
  BY <1>1, <1>2 DEF Col
<1> QED
  BY <1>1, <1>3, <1>4 DEF IsLeastAt, IsGreatestAt

-----------------------------------------------------------------------------
(***************************************************************************)
(* The bubble sorts, of a list f with its least element at 0.              *)
(***************************************************************************)
LEMMA PassBegins ==
  ASSUME NEW size \in Nat \ {0}, NEW f \in [0 .. size - 1 -> Int],
         IsLeastAt(f, 0, 0 .. size - 1)
  PROVE  InPass(f, 0 .. size - 1, size, 1)
<1>1. Settled(f, size, 0 .. size - 1)
  BY DEF Settled
<1>2. ASSUME size > 1, NEW a \in 0 .. size - 1, a <= 1
      PROVE  f[a] <= f[1]
  <2>1. 1 \in 0 .. size - 1 /\ f[1] \in Int /\ (a = 0 \/ a = 1)
    BY <1>2
  <2> QED
    BY <2>1 DEF IsLeastAt
<1> QED
  BY <1>1, <1>2 DEF InPass

LEMMA PassSwaps ==
  ASSUME NEW size \in Nat \ {0}, NEW f \in [0 .. size - 1 -> Int],
         NEW n1 \in Nat, NEW k1 \in Nat, 1 <= k1, k1 < n1 - 1, n1 <= size,
         InPass(f, 0 .. size - 1, n1, k1), f[k1] > f[k1 + 1],
         NEW f1, \A x \in 0 .. size - 1 :
           f1[x] = f[IF x = k1 THEN k1 + 1 ELSE IF x = k1 + 1 THEN k1 ELSE x]
  PROVE  InPass(f1, 0 .. size - 1, n1, k1 + 1)
<1> DEFINE S == 0 .. size - 1
           T(x) == IF x = k1 THEN k1 + 1 ELSE IF x = k1 + 1 THEN k1 ELSE x
<1>1. k1 \in S /\ k1 + 1 \in S /\ \A x \in S : T(x) \in S /\ f1[x] = f[T(x)] /\ f[x] \in Int
  OBVIOUS
<1>2. Settled(f1, n1, S)
  <2>1. ASSUME NEW a \in S, NEW b \in S, a < b, b >= n1
        PROVE  f1[a] <= f1[b]
    <3>1. T(b) = b /\ T(a) < b /\ T(a) \in S
      BY <1>1, <2>1
    <3>2. f[T(a)] <= f[b]
      BY <2>1, <3>1 DEF InPass, Settled
    <3> QED
      BY <1>1, <3>1, <3>2
  <2> QED
    BY <2>1 DEF Settled
<1>3. ASSUME NEW a \in S, a <= k1 + 1
      PROVE  f1[a] <= f1[k1 + 1]
  <2>1. f1[k1 + 1] = f[k1] /\ f[k1] \in Int /\ f1[k1] = f[k1 + 1] /\ f[k1 + 1] \in Int
    BY <1>1
  <2>2. CASE a \in {k1, k1 + 1}
    BY <2>1, <2>2
  <2>3. CASE a \notin {k1, k1 + 1}
    <3>1. f1[a] = f[a] /\ a <= k1
      BY <1>1, <1>3, <2>3
    <3>2. f[a] <= f[k1]
      BY <3>1 DEF InPass
    <3> QED
      BY <2>1, <3>1, <3>2
  <2> QED
    BY <2>2, <2>3
<1> QED
  BY <1>2, <1>3 DEF InPass

LEMMA PassGoesOn ==
  ASSUME NEW size \in Nat \ {0}, NEW f \in [0 .. size - 1 -> Int],
         NEW n1 \in Nat, NEW k1 \in Nat, 1 <= k1, k1 < n1 - 1, n1 <= size,
         InPass(f, 0 .. size - 1, n1, k1), ~ f[k1] > f[k1 + 1]
  PROVE  InPass(f, 0 .. size - 1, n1, k1 + 1)
<1>1. ASSUME NEW a \in 0 .. size - 1, a <= k1 + 1
      PROVE  f[a] <= f[k1 + 1]
  <2>1. /\ k1 \in 0 .. size - 1 /\ k1 + 1 \in 0 .. size - 1
        /\ f[a] \in Int /\ f[k1] \in Int /\ f[k1 + 1] \in Int
    OBVIOUS
  <2>2. CASE a <= k1
    <3>1. f[a] <= f[k1]
      BY <2>2 DEF InPass
    <3> QED
      BY <2>1, <3>1
  <2>3. CASE a = k1 + 1
    BY <2>1, <2>3
  <2> QED
    BY <1>1, <2>2, <2>3
<1> QED
  BY <1>1 DEF InPass

LEMMA PassEnds ==
  ASSUME NEW size \in Nat \ {0}, NEW f \in [0 .. size - 1 -> Int],
         NEW n1 \in Nat, NEW k1 \in Nat, n1 > 1, k1 >= n1 - 1, n1 <= size,
         IsLeastAt(f, 0, 0 .. size - 1), InPass(f, 0 .. size - 1, n1, k1)
  PROVE  InPass(f, 0 .. size - 1, n1 - 1, 1)
<1>1. k1 = n1 - 1
  BY DEF InPass
<1>2. Settled(f, n1 - 1, 0 .. size - 1)
  <2>1. ASSUME NEW a \in 0 .. size - 1, NEW b \in 0 .. size - 1, a < b, b >= n1 - 1
        PROVE  f[a] <= f[b]
    <3>1. CASE b = n1 - 1
      BY <1>1, <2>1, <3>1 DEF InPass
    <3>2. CASE b >= n1
      BY <2>1, <3>2 DEF InPass, Settled
    <3> QED
      BY <2>1, <3>1, <3>2
  <2> QED
    BY <2>1 DEF Settled
<1>3. ASSUME n1 - 1 > 1, NEW a \in 0 .. size - 1, a <= 1
      PROVE  f[a] <= f[1]
  <2>1. 1 \in 0 .. size - 1 /\ f[1] \in Int /\ (a = 0 \/ a = 1)
    BY <1>3
  <2> QED
    BY <2>1 DEF IsLeastAt
<1> QED
  BY <1>2, <1>3 DEF InPass

LEMMA PassesEnd ==
  ASSUME NEW size \in Nat \ {0}, NEW f \in [0 .. size - 1 -> Int],
         NEW n1 \in Nat, NEW k1 \in Nat, n1 <= 1,
         NoneTwice(f, 0 .. size - 1), InPass(f, 0 .. size - 1, n1, k1)
  PROVE  Ascending(f, 0 .. size - 1)
<1>1. ASSUME NEW a \in 0 .. size - 1, NEW b \in 0 .. size - 1, a < b
      PROVE  f[a] < f[b]
  <2>1. f[a] <= f[b]
    BY <1>1 DEF InPass, Settled
  <2>2. f[a] # f[b]
    BY <1>1 DEF NoneTwice
  <2> QED
    BY <2>1, <2>2
<1> QED
  BY <1>1 DEF Ascending

-----------------------------------------------------------------------------
(***************************************************************************)
(* The steps keep the invariant.                                           *)
(***************************************************************************)
LEMMA FreshGridInv ==
  ASSUME Fresh, IsGrid(input)
  PROVE  GridInv
<1>1. GridOrder
  BY DEF Fresh, IsGrid, GridOrder
<1> QED
  BY <1>1 DEF Fresh, IsGrid, GridInv, StartIsFound, GuidesInOrder, ProfilesInOrder,
              CurvesRunForward

LEMMA NetworkTyped == IInv => NetworkType
BY DEF IInv, TypeOK, NetworkType

\* The lists that are sorted, and their lengths.
LEMMA FirstLists ==
  ASSUME NetworkType
  PROVE  /\ NGuides \in Nat \ {0} /\ Guide = 0 .. NGuides - 1
         /\ Row(profParms, 0) \in [0 .. NGuides - 1 -> Int]
         /\ NProfiles \in Nat \ {0} /\ Profile = 0 .. NProfiles - 1
         /\ Col(guidParms, 0) \in [0 .. NProfiles - 1 -> Int]
<1>1. 0 \in Profile /\ 0 \in Guide
  BY Places
<1> QED
  BY <1>1, RowsAreInt, SizeAssumption DEF NetworkType, Profile, Guide

LEMMA QuietMatrices ==
  ASSUME GridOrder, UNCHANGED parms
  PROVE  GridOrder' /\ profParms' = profParms /\ guidParms' = guidParms
BY DEF GridOrder, parms

LEMMA StartGrid ==
  ASSUME IInv, GridInv, StartAtCorner \/ StartInLoop
  PROVE  GridInv'
<1>1. PICK i \in Profile :
        /\ PutFirst(i)
        /\ \/ StartAtCorner /\ i \in CommonStarts
           \/ StartInLoop /\ i \in LoopStarts
  <2>1. /\ CommonStarts \in SUBSET Profile /\ LoopStarts \in SUBSET Profile
        /\ Profile \in SUBSET Nat
    BY Places DEF CommonStarts, LoopStarts
  <2>2. \A S \in SUBSET Nat : S # {} => Foremost(S) \in S
    BY LeastNumber DEF Foremost
  <2> QED
    BY <2>1, <2>2 DEF StartAtCorner, StartInLoop
<1> DEFINE g == FirstGuideOf(i)
<1>2. /\ pc = "start" /\ NetworkType /\ GridOrder
      /\ \A j \in Guide : \E x \in Profile : guidParms[x][j] > 0
  BY NetworkTyped DEF StartAtCorner, StartInLoop, GridInv, StartIsFound
<1>3. /\ g \in Guide /\ IsLeastAt(Row(profParms, i), g, Guide)
      /\ i \in CommonStarts => IsLeastAt(Col(guidParms, g), i, Profile)
      /\ i \in LoopStarts => IsGreatestAt(Col(guidParms, g), i, Profile)
  BY <1>2, StartIsExtreme
<1>4. Permute(Transposed(0, i), Transposed(0, g))
  BY <1>1 DEF PutFirst
<1> HIDE DEF g
<1>5. GridOrder'
  <2>1. IsPermutation(Transposed(0, i), Profile) /\ IsPermutation(Transposed(0, g), Guide)
    BY <1>3, Places, TransposedProfiles, TransposedGuides DEF IsPermutation
  <2> QED
    BY <1>2, <1>4, <2>1, GridOrderPermuted
<1>6. /\ IsLeastAt(Row(profParms', 0), 0, Guide)
      /\ i \in CommonStarts => IsLeastAt(Col(guidParms', 0), 0, Profile)
      /\ i \in LoopStarts => IsGreatestAt(Col(guidParms', 0), 0, Profile)
  BY <1>2, <1>3, <1>4, StartPutFirst
<1>7. NetworkType'
  BY StartSteps DEF IInv, TypeOK, NetworkType
<1>8. CASE StartAtCorner /\ i \in CommonStarts
  <2>1. pc' = "sortGuides" /\ n' = NGuides /\ k' = 1
    BY <1>8 DEF StartAtCorner
  <2>2. /\ NGuides \in Nat \ {0} /\ Guide = 0 .. NGuides - 1
        /\ Row(profParms', 0) \in [0 .. NGuides - 1 -> Int]
    BY <1>7, Places, SizeAssumption, RowsAreInt DEF NetworkType, Guide
  <2>3. InPass(Row(profParms', 0), Guide, NGuides, 1)
    BY <1>6, <2>2, PassBegins
  <2> QED
    BY <1>5, <1>6, <1>8, <2>1, <2>3
    DEF GridInv, StartIsFound, GuidesInOrder, ProfilesInOrder, CurvesRunForward
<1>9. CASE StartInLoop /\ i \in LoopStarts
  <2>1. pc' = "reverseFirstGuide"
    BY <1>9 DEF StartInLoop
  <2> QED
    BY <1>5, <1>6, <1>9, <2>1
    DEF GridInv, StartIsFound, GuidesInOrder, ProfilesInOrder, CurvesRunForward
<1> QED
  BY <1>1, <1>8, <1>9

LEMMA NoStartGrid ==
  ASSUME IInv, GridInv, NoStart
  PROVE  FALSE
BY NetworkTyped, StartExists DEF NoStart, GridInv, StartIsFound

LEMMA ReverseFirstGuideGrid ==
  ASSUME IInv, GridInv, ReverseFirstGuide
  PROVE  GridInv'
<1>1. /\ pc = "reverseFirstGuide" /\ pc' = "sortGuides" /\ n' = NGuides /\ k' = 1
      /\ reverseGuide(0) /\ 0 \in Guide /\ NetworkType
  BY Places, NetworkTyped DEF ReverseFirstGuide
<1>2. GridOrder'
  BY <1>1, ReversalKeepsOrder DEF GridInv
<1>3. profParms' = profParms /\ IsLeastAt(Row(profParms, 0), 0, Guide)
  BY <1>1, ReversedGuide DEF GridInv, StartIsFound
<1>4. IsLeastAt(Col(guidParms', 0), 0, Profile)
  <2>1. PICK sum \in Int : \A i \in Profile : Col(guidParms', 0)[i] = sum - Col(guidParms, 0)[i]
    BY <1>1, ReversedGuide
  <2>2. IsGreatestAt(Col(guidParms, 0), 0, Profile) /\ 0 \in Profile
    BY <1>1, Places DEF GridInv, StartIsFound
  <2>3. \A i \in Profile : Col(guidParms, 0)[i] \in Int
    BY <1>1, RowsAreInt DEF NetworkType
  <2>4. ASSUME NEW i \in Profile
        PROVE  Col(guidParms', 0)[0] <= Col(guidParms', 0)[i]
    <3>1. Col(guidParms, 0)[i] <= Col(guidParms, 0)[0]
      BY <2>2 DEF IsGreatestAt
    <3> QED
      BY <2>1, <2>2, <2>3, <3>1
  <2> QED
    BY <2>4 DEF IsLeastAt
<1>5. InPass(Row(profParms', 0), Guide, NGuides, 1)
  BY <1>1, <1>3, FirstLists, PassBegins
<1> QED
  BY <1>1, <1>2, <1>3, <1>4, <1>5
  DEF GridInv, StartIsFound, GuidesInOrder, ProfilesInOrder, CurvesRunForward

LEMMA CompareGuidesGrid ==
  ASSUME IInv, GridInv, CompareGuides
  PROVE  GridInv'
<1> DEFINE f == Row(profParms, 0)
           t == Transposed(k, k + 1)
<1>1. /\ pc = "sortGuides" /\ pc' = pc /\ n' = n /\ k' = k + 1
      /\ k \in Nat /\ n \in Nat /\ k >= 1 /\ n <= NGuides /\ k < n - 1
  BY DEF CompareGuides, IInv, TypeOK
<1>2. NetworkType /\ GridOrder /\ 0 \in Profile /\ 0 \in Guide
  BY NetworkTyped, Places DEF GridInv
<1>3. k \in Guide /\ k + 1 \in Guide
  BY <1>1, SizeAssumption DEF Guide
<1>4. /\ IsLeastAt(f, 0, Guide) /\ IsLeastAt(Col(guidParms, 0), 0, Profile)
      /\ InPass(f, Guide, n, k)
  BY <1>1 DEF GridInv, StartIsFound, GuidesInOrder
<1>5. f[k] = profParms[0][k] /\ f[k + 1] = profParms[0][k + 1]
  BY <1>3 DEF Row
<1>6. CASE GuidesOutOfOrder(k)
  <2>1. Permute(Transposed(0, 0), t)
    BY <1>6 DEF CompareGuides, swapGuides, Nothing
  <2>2. GridOrder'
    <3>1. IsPermutation(Transposed(0, 0), Profile) /\ IsPermutation(t, Guide)
      BY <1>2, <1>3, TransposedProfiles, TransposedGuides DEF IsPermutation
    <3> QED
      BY <1>2, <2>1, <3>1, GridOrderPermuted
  <2>3. /\ \A x \in Profile : Transposed(0, 0)[x] = x
        /\ \A x \in Guide : t[x] = (IF x = k THEN k + 1 ELSE IF x = k + 1 THEN k ELSE x)
        /\ \A x \in Guide : t[x] \in Guide
        /\ t[0] = 0
    BY <1>1, <1>2, <1>3 DEF Transposed
  <2>4. /\ profParms' = [x \in Profile |-> [y \in Guide |-> profParms[Transposed(0, 0)[x]][t[y]]]]
        /\ guidParms' = [x \in Profile |-> [y \in Guide |-> guidParms[Transposed(0, 0)[x]][t[y]]]]
    BY <2>1 DEF Permute
  <2> HIDE DEF t
  <2>5. /\ \A y \in Guide : Row(profParms', 0)[y] = f[t[y]]
        /\ \A x \in Profile : Col(guidParms', 0)[x] = Col(guidParms, 0)[x]
    BY <1>2, <2>3, <2>4 DEF Row, Col
  <2>6. InPass(Row(profParms', 0), Guide, n, k + 1)
    <3>1. f[k] > f[k + 1]
      BY <1>5, <1>6 DEF GuidesOutOfOrder
    <3>2. \A y \in Guide : Row(profParms', 0)[y]
                             = f[IF y = k THEN k + 1 ELSE IF y = k + 1 THEN k ELSE y]
      BY <2>3, <2>5
    <3>3. /\ f \in [0 .. NGuides - 1 -> Int] /\ NGuides \in Nat \ {0}
          /\ Guide = 0 .. NGuides - 1
      BY <1>2, FirstLists
    <3> DEFINE f1 == Row(profParms', 0)
    <3> HIDE DEF f, f1
    <3>4. InPass(f1, 0 .. NGuides - 1, n, k + 1)
      <4>1. \A x \in 0 .. NGuides - 1 :
              f1[x] = f[IF x = k THEN k + 1 ELSE IF x = k + 1 THEN k ELSE x]
        BY <3>2, <3>3 DEF f1
      <4>2. InPass(f, 0 .. NGuides - 1, n, k)
        BY <1>4, <3>3
      <4> QED
        BY <1>1, <3>1, <3>3, <4>1, <4>2, PassSwaps
    <3> QED
      BY <3>3, <3>4 DEF f1
  <2>7. IsLeastAt(Row(profParms', 0), 0, Guide) /\ IsLeastAt(Col(guidParms', 0), 0, Profile)
    BY <1>2, <1>4, <2>3, <2>5 DEF IsLeastAt
  <2> QED
    BY <1>1, <2>2, <2>6, <2>7
    DEF GridInv, StartIsFound, GuidesInOrder, ProfilesInOrder, CurvesRunForward
<1>7. CASE ~ GuidesOutOfOrder(k)
  <2>1. GridOrder' /\ profParms' = profParms /\ guidParms' = guidParms
    BY <1>2, <1>7, QuietMatrices DEF CompareGuides
  <2>2. ~ f[k] > f[k + 1]
    BY <1>5, <1>7 DEF GuidesOutOfOrder
  <2>3. InPass(f, Guide, n, k + 1)
    BY <1>1, <1>2, <1>4, <2>2, FirstLists, PassGoesOn
  <2> QED
    BY <1>1, <1>4, <2>1, <2>3
    DEF GridInv, StartIsFound, GuidesInOrder, ProfilesInOrder, CurvesRunForward
<1> QED
  BY <1>6, <1>7

LEMMA CompareProfilesGrid ==
  ASSUME IInv, GridInv, CompareProfiles
  PROVE  GridInv'
<1> DEFINE f == Col(guidParms, 0)
           t == Transposed(k, k + 1)
<1>1. /\ pc = "sortProfiles" /\ pc' = pc /\ n' = n /\ k' = k + 1
      /\ k \in Nat /\ n \in Nat /\ k >= 1 /\ n <= NProfiles /\ k < n - 1
  BY DEF CompareProfiles, IInv, TypeOK
<1>2. NetworkType /\ GridOrder /\ 0 \in Profile /\ 0 \in Guide
  BY NetworkTyped, Places DEF GridInv
<1>3. k \in Profile /\ k + 1 \in Profile
  BY <1>1, SizeAssumption DEF Profile
<1>4. /\ IsLeastAt(Row(profParms, 0), 0, Guide) /\ Ascending(Row(profParms, 0), Guide)
      /\ IsLeastAt(f, 0, Profile) /\ InPass(f, Profile, n, k)
  BY <1>1 DEF GridInv, StartIsFound, GuidesInOrder, ProfilesInOrder
<1>5. f[k] = guidParms[k][0] /\ f[k + 1] = guidParms[k + 1][0]
  BY <1>3 DEF Col
<1>6. CASE ProfilesOutOfOrder(k)
  <2>1. Permute(t, Transposed(0, 0))
    BY <1>6 DEF CompareProfiles, swapProfiles, Nothing
  <2>2. GridOrder'
    <3>1. IsPermutation(t, Profile) /\ IsPermutation(Transposed(0, 0), Guide)
      BY <1>2, <1>3, TransposedProfiles, TransposedGuides DEF IsPermutation
    <3> QED
      BY <1>2, <2>1, <3>1, GridOrderPermuted
  <2>3. /\ \A x \in Guide : Transposed(0, 0)[x] = x
        /\ \A x \in Profile : t[x] = (IF x = k THEN k + 1 ELSE IF x = k + 1 THEN k ELSE x)
        /\ \A x \in Profile : t[x] \in Profile
        /\ t[0] = 0
    BY <1>1, <1>2, <1>3 DEF Transposed
  <2>4. /\ profParms' = [x \in Profile |-> [y \in Guide |-> profParms[t[x]][Transposed(0, 0)[y]]]]
        /\ guidParms' = [x \in Profile |-> [y \in Guide |-> guidParms[t[x]][Transposed(0, 0)[y]]]]
    BY <2>1 DEF Permute
  <2> HIDE DEF t
  <2>5. /\ \A x \in Profile : Col(guidParms', 0)[x] = f[t[x]]
        /\ \A y \in Guide : Row(profParms', 0)[y] = Row(profParms, 0)[y]
    BY <1>2, <2>3, <2>4 DEF Row, Col
  <2>6. InPass(Col(guidParms', 0), Profile, n, k + 1)
    <3>1. f[k] > f[k + 1]
      BY <1>5, <1>6 DEF ProfilesOutOfOrder
    <3>2. \A x \in Profile : Col(guidParms', 0)[x]
                               = f[IF x = k THEN k + 1 ELSE IF x = k + 1 THEN k ELSE x]
      BY <2>3, <2>5
    <3>3. /\ f \in [0 .. NProfiles - 1 -> Int] /\ NProfiles \in Nat \ {0}
          /\ Profile = 0 .. NProfiles - 1
      BY <1>2, FirstLists
    <3> DEFINE f1 == Col(guidParms', 0)
    <3> HIDE DEF f, f1
    <3>4. InPass(f1, 0 .. NProfiles - 1, n, k + 1)
      <4>1. \A x \in 0 .. NProfiles - 1 :
              f1[x] = f[IF x = k THEN k + 1 ELSE IF x = k + 1 THEN k ELSE x]
        BY <3>2, <3>3 DEF f1
      <4>2. InPass(f, 0 .. NProfiles - 1, n, k)
        BY <1>4, <3>3
      <4> QED
        BY <1>1, <3>1, <3>3, <4>1, <4>2, PassSwaps
    <3> QED
      BY <3>3, <3>4 DEF f1
  <2>7. /\ IsLeastAt(Row(profParms', 0), 0, Guide) /\ Ascending(Row(profParms', 0), Guide)
        /\ IsLeastAt(Col(guidParms', 0), 0, Profile)
    BY <1>2, <1>4, <2>3, <2>5 DEF IsLeastAt, Ascending
  <2> QED
    BY <1>1, <2>2, <2>6, <2>7
    DEF GridInv, StartIsFound, GuidesInOrder, ProfilesInOrder, CurvesRunForward
<1>7. CASE ~ ProfilesOutOfOrder(k)
  <2>1. GridOrder' /\ profParms' = profParms /\ guidParms' = guidParms
    BY <1>2, <1>7, QuietMatrices DEF CompareProfiles
  <2>2. ~ f[k] > f[k + 1]
    BY <1>5, <1>7 DEF ProfilesOutOfOrder
  <2>3. InPass(f, Profile, n, k + 1)
    BY <1>1, <1>2, <1>4, <2>2, FirstLists, PassGoesOn
  <2> QED
    BY <1>1, <1>4, <2>1, <2>3
    DEF GridInv, StartIsFound, GuidesInOrder, ProfilesInOrder, CurvesRunForward
<1> QED
  BY <1>6, <1>7

LEMMA NextPassGrid ==
  ASSUME IInv, GridInv, NextPass
  PROVE  GridInv'
<1>1. /\ pc' = pc /\ n' = n - 1 /\ k' = 1 /\ n \in Nat /\ k \in Nat /\ n > 1 /\ k >= n - 1
      /\ pc = "sortGuides" => n <= NGuides
      /\ pc = "sortProfiles" => n <= NProfiles
      /\ pc \in {"sortGuides", "sortProfiles"}
  BY DEF NextPass, IInv, TypeOK
<1>2. GridOrder' /\ profParms' = profParms /\ guidParms' = guidParms
  BY QuietMatrices DEF NextPass, GridInv
<1>3. StartIsFound'
  BY <1>1, <1>2 DEF GridInv, StartIsFound
<1>4. CASE pc = "sortGuides"
  <2>1. InPass(Row(profParms, 0), Guide, n - 1, 1)
    BY <1>1, <1>4, NetworkTyped, FirstLists, PassEnds DEF GridInv, StartIsFound, GuidesInOrder
  <2> QED
    BY <1>1, <1>2, <1>3, <1>4, <2>1
    DEF GridInv, GuidesInOrder, ProfilesInOrder, CurvesRunForward
<1>5. CASE pc = "sortProfiles"
  <2>1. InPass(Col(guidParms, 0), Profile, n - 1, 1)
    BY <1>1, <1>5, NetworkTyped, FirstLists, PassEnds DEF GridInv, StartIsFound, ProfilesInOrder
  <2> QED
    BY <1>1, <1>2, <1>3, <1>5, <2>1
    DEF GridInv, GuidesInOrder, ProfilesInOrder, CurvesRunForward
<1> QED
  BY <1>1, <1>4, <1>5

LEMMA GuidesSortedGrid ==
  ASSUME IInv, GridInv, GuidesSorted
  PROVE  GridInv'
<1>1. /\ pc = "sortGuides" /\ pc' = "sortProfiles" /\ n' = NProfiles /\ k' = 1
      /\ n \in Nat /\ k \in Nat /\ n <= 1
  BY DEF GuidesSorted, IInv, TypeOK
<1>2. GridOrder' /\ profParms' = profParms /\ guidParms' = guidParms
  BY QuietMatrices DEF GuidesSorted, GridInv
<1>3. Ascending(Row(profParms, 0), Guide)
  <2>1. NoneTwice(Row(profParms, 0), Guide)
    BY Places DEF GridInv, GridOrder, RowsAlike
  <2> QED
    BY <1>1, <2>1, NetworkTyped, FirstLists, PassesEnd DEF GridInv, GuidesInOrder
<1>4. InPass(Col(guidParms, 0), Profile, NProfiles, 1)
  BY <1>1, NetworkTyped, FirstLists, PassBegins DEF GridInv, StartIsFound
<1> QED
  BY <1>1, <1>2, <1>3, <1>4
  DEF GridInv, StartIsFound, GuidesInOrder, ProfilesInOrder, CurvesRunForward

LEMMA ProfilesSortedGrid ==
  ASSUME IInv, GridInv, ProfilesSorted
  PROVE  GridInv'
<1>1. /\ pc = "sortProfiles" /\ pc' = "reverseProfiles" /\ k' = 1
      /\ n \in Nat /\ k \in Nat /\ n <= 1
  BY DEF ProfilesSorted, IInv, TypeOK
<1>2. GridOrder' /\ profParms' = profParms /\ guidParms' = guidParms
  BY QuietMatrices DEF ProfilesSorted, GridInv
<1>3. Ascending(Col(guidParms, 0), Profile)
  <2>1. NoneTwice(Col(guidParms, 0), Profile)
    BY Places DEF GridInv, GridOrder, ColsAlike
  <2> QED
    BY <1>1, <2>1, NetworkTyped, FirstLists, PassesEnd DEF GridInv, ProfilesInOrder
<1>4. \A i \in Profile : i < 1 => Ascending(Row(profParms, i), Guide)
  <2>1. \A i \in Profile : i < 1 => i = 0
    BY SizeAssumption DEF Profile
  <2> QED
    BY <1>1, <2>1 DEF GridInv, GuidesInOrder
<1> QED
  BY <1>1, <1>2, <1>3, <1>4
  DEF GridInv, StartIsFound, GuidesInOrder, ProfilesInOrder, CurvesRunForward

\* A row that is like an ascending one runs forward or back as its ends do.
LEMMA EndsTell ==
  ASSUME NEW size \in Nat \ {0}, NEW f \in [0 .. size - 1 -> Int],
         NEW h \in [0 .. size - 1 -> Int], Ascending(f, 0 .. size - 1),
         Alike(f, h, 0 .. size - 1)
  PROVE  /\ h[0] > h[size - 1] => Descending(h, 0 .. size - 1)
         /\ ~ h[0] > h[size - 1] => Ascending(h, 0 .. size - 1)
<1> DEFINE S == 0 .. size - 1
<1>1. 0 \in S /\ size - 1 \in S /\ h[0] \in Int /\ h[size - 1] \in Int
  OBVIOUS
<1>2. Ascending(h, S) \/ Descending(h, S)
  <2>1. S \in SUBSET Int
    OBVIOUS
  <2> QED
    BY <2>1, AlikeAscending
<1>3. CASE size = 1
  <2>1. \A a, b \in S : ~ a < b
    BY <1>3
  <2> QED
    BY <2>1 DEF Ascending, Descending
<1>4. CASE size # 1
  <2>1. 0 < size - 1
    BY <1>4
  <2> QED
    BY <1>1, <1>2, <2>1 DEF Ascending, Descending
<1> QED
  BY <1>3, <1>4

LEMMA MadeForward ==
  ASSUME NEW S, NEW h \in [S -> Int], Descending(h, S), NEW sum \in Int,
         NEW h1, \A x \in S : h1[x] = sum - h[x]
  PROVE  Ascending(h1, S)
<1>1. ASSUME NEW a \in S, NEW b \in S, a < b
      PROVE  h1[a] < h1[b]
  <2>1. h[b] < h[a] /\ h[a] \in Int /\ h[b] \in Int
    BY <1>1 DEF Descending
  <2> QED
    BY <2>1
<1> QED
  BY <1>1 DEF Ascending

LEMMA CheckProfileGrid ==
  ASSUME IInv, GridInv, CheckProfile
  PROVE  GridInv'
<1>1. /\ pc = "reverseProfiles" /\ pc' = pc /\ k' = k + 1
      /\ k \in Nat /\ k >= 1 /\ k \in Profile
  BY SizeAssumption DEF CheckProfile, IInv, TypeOK, Profile
<1>2. NetworkType /\ GridOrder /\ 0 \in Profile /\ 0 \in Guide /\ 0 # k
  BY <1>1, NetworkTyped, Places DEF GridInv
<1> DEFINE f == Row(profParms, 0)
           h == Row(profParms, k)
<1>3. /\ f \in [0 .. NGuides - 1 -> Int] /\ h \in [0 .. NGuides - 1 -> Int]
      /\ NGuides \in Nat \ {0} /\ Guide = 0 .. NGuides - 1
      /\ NGuides - 1 \in Guide
      /\ Ascending(f, Guide) /\ Alike(f, h, Guide)
  <2>1. Ascending(f, Guide) /\ Alike(f, h, Guide)
    BY <1>1, <1>2 DEF GridInv, GuidesInOrder, GridOrder, RowsAlike
  <2>2. h \in [Guide -> Int] /\ NGuides - 1 \in Guide
    BY <1>1, <1>2, SizeAssumption, RowsAreInt DEF NetworkType, Guide
  <2> QED
    BY <1>2, <2>1, <2>2, FirstLists
<1>4. h[0] = profParms[k][0] /\ h[NGuides - 1] = profParms[k][NGuides - 1]
  BY <1>2, <1>3 DEF Row
<1>5. /\ IsLeastAt(f, 0, Guide) /\ IsLeastAt(Col(guidParms, 0), 0, Profile)
      /\ Ascending(Col(guidParms, 0), Profile)
      /\ \A i \in Profile : i < k => Ascending(Row(profParms, i), Guide)
  BY <1>1 DEF GridInv, StartIsFound, ProfilesInOrder, CurvesRunForward
<1>6. GridOrder' /\ guidParms' = guidParms /\ Row(profParms', 0) = f
      /\ (\A i \in Profile : i # k => Row(profParms', i) = Row(profParms, i))
      /\ Ascending(Row(profParms', k), Guide)
  <2>1. CASE RunsBackProfile(k)
    <3>1. reverseProfile(k) /\ h[0] > h[NGuides - 1]
      BY <1>4, <2>1 DEF CheckProfile, RunsBackProfile
    <3>2. PICK sum \in Int : \A j \in Guide : Row(profParms', k)[j] = sum - h[j]
      BY <1>1, <1>2, <3>1, ReversedProfile
    <3> DEFINE h1 == Row(profParms', k)
    <3> HIDE DEF f, h, h1
    <3>3. Ascending(h1, Guide)
      <4>1. Descending(h, Guide) /\ h \in [Guide -> Int]
        BY <1>3, <3>1, EndsTell
      <4>2. \A j \in Guide : h1[j] = sum - h[j]
        BY <3>2 DEF h1
      <4> QED
        BY <4>1, <4>2, MadeForward
    <3>4. /\ guidParms' = guidParms
          /\ \A i \in Profile : i # k => Row(profParms', i) = Row(profParms, i)
      BY <1>1, <1>2, <3>1, ReversedProfile
    <3> QED
      BY <1>1, <1>2, <3>1, <3>3, <3>4, ReversalKeepsOrder DEF h1, f
  <2>2. CASE ~ RunsBackProfile(k)
    <3>1. GridOrder' /\ profParms' = profParms /\ guidParms' = guidParms
      BY <1>2, <2>2, QuietMatrices DEF CheckProfile
    <3>2. ~ h[0] > h[NGuides - 1]
      BY <1>4, <2>2 DEF RunsBackProfile
    <3> HIDE DEF f, h
    <3>3. Ascending(h, Guide)
      BY <1>3, <3>2, EndsTell
    <3> QED
      BY <3>1, <3>3 DEF h, f
  <2> QED
    BY <2>1, <2>2
<1>7. \A i \in Profile : i < k + 1 => Ascending(Row(profParms', i), Guide)
  <2>1. \A i \in Profile : i < k + 1 => i < k \/ i = k
    BY <1>1, Places
  <2> QED
    BY <1>5, <1>6, <2>1
<1> HIDE DEF f, h
<1> QED
  BY <1>1, <1>3, <1>5, <1>6, <1>7
  DEF GridInv, StartIsFound, GuidesInOrder, ProfilesInOrder, CurvesRunForward

LEMMA CheckGuideGrid ==
  ASSUME IInv, GridInv, CheckGuide
  PROVE  GridInv'
<1>1. /\ pc = "reverseGuides" /\ pc' = pc /\ k' = k + 1
      /\ k \in Nat /\ k >= 1 /\ k \in Guide
  BY SizeAssumption DEF CheckGuide, IInv, TypeOK, Guide
<1>2. NetworkType /\ GridOrder /\ 0 \in Profile /\ 0 \in Guide /\ 0 # k
  BY <1>1, NetworkTyped, Places DEF GridInv
<1> DEFINE f == Col(guidParms, 0)
           h == Col(guidParms, k)
<1>3. /\ f \in [0 .. NProfiles - 1 -> Int] /\ h \in [0 .. NProfiles - 1 -> Int]
      /\ NProfiles \in Nat \ {0} /\ Profile = 0 .. NProfiles - 1
      /\ NProfiles - 1 \in Profile
      /\ Ascending(f, Profile) /\ Alike(f, h, Profile)
  <2>1. Ascending(f, Profile) /\ Alike(f, h, Profile)
    BY <1>1, <1>2 DEF GridInv, ProfilesInOrder, GridOrder, ColsAlike
  <2>2. h \in [Profile -> Int] /\ NProfiles - 1 \in Profile
    BY <1>1, <1>2, SizeAssumption, RowsAreInt DEF NetworkType, Profile
  <2> QED
    BY <1>2, <2>1, <2>2, FirstLists
<1>4. h[0] = guidParms[0][k] /\ h[NProfiles - 1] = guidParms[NProfiles - 1][k]
  BY <1>2, <1>3 DEF Col
<1>5. /\ IsLeastAt(Row(profParms, 0), 0, Guide) /\ IsLeastAt(f, 0, Profile)
      /\ Ascending(Row(profParms, 0), Guide)
      /\ \A i \in Profile : Ascending(Row(profParms, i), Guide)
      /\ \A j \in Guide : j < k => Ascending(Col(guidParms, j), Profile)
  BY <1>1 DEF GridInv, StartIsFound, GuidesInOrder, CurvesRunForward
<1>6. GridOrder' /\ profParms' = profParms /\ Col(guidParms', 0) = f
      /\ (\A j \in Guide : j # k => Col(guidParms', j) = Col(guidParms, j))
      /\ Ascending(Col(guidParms', k), Profile)
  <2>1. CASE RunsBackGuide(k)
    <3>1. reverseGuide(k) /\ h[0] > h[NProfiles - 1]
      BY <1>4, <2>1 DEF CheckGuide, RunsBackGuide
    <3>2. PICK sum \in Int : \A i \in Profile : Col(guidParms', k)[i] = sum - h[i]
      BY <1>1, <1>2, <3>1, ReversedGuide
    <3> DEFINE h1 == Col(guidParms', k)
    <3> HIDE DEF f, h, h1
    <3>3. Ascending(h1, Profile)
      <4>1. Descending(h, Profile) /\ h \in [Profile -> Int]
        BY <1>3, <3>1, EndsTell
      <4>2. \A i \in Profile : h1[i] = sum - h[i]
        BY <3>2 DEF h1
      <4> QED
        BY <4>1, <4>2, MadeForward
    <3>4. /\ profParms' = profParms
          /\ \A j \in Guide : j # k => Col(guidParms', j) = Col(guidParms, j)
      BY <1>1, <1>2, <3>1, ReversedGuide
    <3> QED
      BY <1>1, <1>2, <3>1, <3>3, <3>4, ReversalKeepsOrder DEF h1, f
  <2>2. CASE ~ RunsBackGuide(k)
    <3>1. GridOrder' /\ profParms' = profParms /\ guidParms' = guidParms
      BY <1>2, <2>2, QuietMatrices DEF CheckGuide
    <3>2. ~ h[0] > h[NProfiles - 1]
      BY <1>4, <2>2 DEF RunsBackGuide
    <3> HIDE DEF f, h
    <3>3. Ascending(h, Profile)
      BY <1>3, <3>2, EndsTell
    <3> QED
      BY <3>1, <3>3 DEF h, f
  <2> QED
    BY <2>1, <2>2
<1>7. \A j \in Guide : j < k + 1 => Ascending(Col(guidParms', j), Profile)
  <2>1. \A j \in Guide : j < k + 1 => j < k \/ j = k
    BY <1>1, Places
  <2> QED
    BY <1>5, <1>6, <2>1
<1> HIDE DEF f, h
<1> QED
  BY <1>1, <1>3, <1>5, <1>6, <1>7
  DEF GridInv, StartIsFound, GuidesInOrder, ProfilesInOrder, CurvesRunForward

\* Steps that end a round.
LEMMA RoundEndsGrid ==
  ASSUME IInv, GridInv, ProfilesChecked \/ GuidesChecked \/ Stopped \/ UNCHANGED vars
  PROVE  GridInv'
<1>1. UNCHANGED parms
  BY DEF ProfilesChecked, GuidesChecked, Stopped, vars
<1>2. GridOrder' /\ profParms' = profParms /\ guidParms' = guidParms
  BY <1>1, QuietMatrices DEF GridInv
<1>3. CASE ProfilesChecked
  <2>1. /\ pc = "reverseProfiles" /\ pc' = "reverseGuides" /\ k' = 1 /\ k >= NProfiles
        /\ k \in Nat
    BY <1>3 DEF ProfilesChecked, IInv, TypeOK
  <2>2. /\ \A i \in Profile : i < k
        /\ \A j \in Guide : j < 1 => j = 0
    BY <2>1, SizeAssumption DEF Profile, Guide
  <2>3. /\ \A i \in Profile : Ascending(Row(profParms, i), Guide)
        /\ \A j \in Guide : j < 1 => Ascending(Col(guidParms, j), Profile)
    BY <2>1, <2>2 DEF GridInv, CurvesRunForward, ProfilesInOrder
  <2> QED
    BY <1>2, <2>1, <2>3
    DEF GridInv, StartIsFound, GuidesInOrder, ProfilesInOrder, CurvesRunForward
<1>4. CASE GuidesChecked
  <2>1. pc = "reverseGuides" /\ pc' = "performed" /\ k >= NGuides /\ k \in Nat
    BY <1>4 DEF GuidesChecked, IInv, TypeOK
  <2>2. \A j \in Guide : j < k
    BY <2>1, SizeAssumption DEF Guide
  <2> QED
    BY <1>2, <2>1, <2>2
    DEF GridInv, StartIsFound, GuidesInOrder, ProfilesInOrder, CurvesRunForward
<1>5. CASE Stopped \/ UNCHANGED vars
  <2>1. UNCHANGED <<pc, n, k>>
    BY <1>5 DEF Stopped, vars
  <2> QED
    BY <1>2, <2>1
    DEF GridInv, StartIsFound, GuidesInOrder, ProfilesInOrder, CurvesRunForward
<1> QED
  BY <1>3, <1>4, <1>5

\* GridInv, for the networks that are grids.
GridIInv == IsGrid(input) => GridInv

LEMMA FreshGridIInv == Fresh => GridIInv
BY FreshGridInv DEF GridIInv

LEMMA NextGridIInv == IInv /\ GridIInv /\ [Next]_vars => GridIInv'
<1> SUFFICES ASSUME IInv, GridIInv, [Next]_vars, IsGrid(input')
             PROVE  GridInv'
  BY DEF GridIInv
<1>1. input' = input
  BY DEF Next, vars, StartAtCorner, StartInLoop, ReverseFirstGuide, NoStart, CompareGuides,
         CompareProfiles, NextPass, GuidesSorted, ProfilesSorted, CheckProfile,
         ProfilesChecked, CheckGuide, GuidesChecked, Stopped
<1>2. GridInv
  BY <1>1 DEF GridIInv
<1>3. CASE StartAtCorner \/ StartInLoop
  BY <1>2, <1>3, StartGrid
<1>4. CASE ReverseFirstGuide
  BY <1>2, <1>4, ReverseFirstGuideGrid
<1>5. CASE NoStart
  BY <1>2, <1>5, NoStartGrid
<1>6. CASE CompareGuides
  BY <1>2, <1>6, CompareGuidesGrid
<1>7. CASE CompareProfiles
  BY <1>2, <1>7, CompareProfilesGrid
<1>8. CASE NextPass
  BY <1>2, <1>8, NextPassGrid
<1>9. CASE GuidesSorted
  BY <1>2, <1>9, GuidesSortedGrid
<1>10. CASE ProfilesSorted
  BY <1>2, <1>10, ProfilesSortedGrid
<1>11. CASE CheckProfile
  BY <1>2, <1>11, CheckProfileGrid
<1>12. CASE CheckGuide
  BY <1>2, <1>12, CheckGuideGrid
<1>13. CASE ProfilesChecked \/ GuidesChecked \/ Stopped \/ UNCHANGED vars
  BY <1>2, <1>13, RoundEndsGrid
<1> QED
  BY <1>3, <1>4, <1>5, <1>6, <1>7, <1>8, <1>9, <1>10, <1>11, <1>12, <1>13 DEF Next

LEMMA GridIInvSuffices == GridIInv => GridsAreSorted
<1> SUFFICES ASSUME GridInv PROVE pc # "thrown" /\ (pc = "performed" =>
               \A i \in Profile, j \in Guide :
                 /\ j + 1 \in Guide => profParms[i][j] < profParms[i][j + 1]
                 /\ i + 1 \in Profile => guidParms[i][j] < guidParms[i + 1][j])
  BY DEF GridIInv, GridsAreSorted
<1>1. pc # "thrown"
  BY DEF GridInv, StartIsFound
<1>2. ASSUME pc = "performed", NEW i \in Profile, NEW j \in Guide
      PROVE  /\ j + 1 \in Guide => profParms[i][j] < profParms[i][j + 1]
             /\ i + 1 \in Profile => guidParms[i][j] < guidParms[i + 1][j]
  <2>1. Ascending(Row(profParms, i), Guide) /\ Ascending(Col(guidParms, j), Profile)
    BY <1>2 DEF GridInv, CurvesRunForward
  <2>2. i < i + 1 /\ j < j + 1
    BY Places
  <2> QED
    BY <2>1, <2>2 DEF Ascending, Row, Col
<1> QED
  BY <1>1, <1>2

\* Perform finds a start on every grid and leaves each row and each column
\* ascending: of any size, its curves given in any order and any direction.
THEOREM EveryGridIsSorted == Spec => []GridsAreSorted
<1>1. Init => Fresh
  BY InputsAssumption DEF Init, Fresh
<1>2. Spec => []GridIInv
  BY <1>1, Inductive, FreshGridIInv, NextGridIInv, PTL DEF Spec
<1> QED
  BY <1>2, GridIInvSuffices, PTL

-----------------------------------------------------------------------------
(***************************************************************************)
(* InterpolateCurveNetwork: the operators.                                 *)
(***************************************************************************)
\* A loop that adds up integers has one as its sum.
LEMMA TotalIsInt ==
  ASSUME NEW size \in Nat, NEW f, \A m \in 0 .. size : m # size => f[m] \in Int
  PROVE  Total(f, size) \in Int
<1> DEFINE IsSum(h, last) ==
      h = [m \in 0 .. last |-> IF m = 0 THEN 0 ELSE h[m - 1] + f[m - 1]]
           bad == {last \in 0 .. size : ~ \E h : IsSum(h, last) /\ h \in [0 .. last -> Int]}
           total == CHOOSE h : IsSum(h, size)
<1>1. bad = {}
  <2>1. SUFFICES ASSUME bad # {} PROVE FALSE
    OBVIOUS
  <2>2. PICK least \in bad : \A x \in bad : least <= x
    <3>1. bad \in SUBSET Nat
      OBVIOUS
    <3> HIDE DEF bad
    <3> QED
      BY <2>1, <3>1, LeastNumber
  <2>3. CASE least = 0
    <3> DEFINE h == [m \in 0 .. 0 |-> 0]
    <3>1. h = [m \in 0 .. 0 |-> IF m = 0 THEN 0 ELSE h[m - 1] + f[m - 1]]
      OBVIOUS
    <3>2. h \in [0 .. 0 -> Int]
      OBVIOUS
    <3>3. IsSum(h, least)
      BY <3>1, <2>3
    <3>4. h \in [0 .. least -> Int]
      BY <3>2, <2>3
    <3> HIDE DEF h, IsSum
    <3> QED
      <4>1. \E hh : IsSum(hh, least) /\ hh \in [0 .. least -> Int]
        BY <3>3, <3>4, Zenon
      <4> QED
        BY <2>2, <4>1
  <2>4. CASE least # 0
    <3>0. least \in 0 .. size
      BY <2>2
    <3>1. least - 1 \in 0 .. size /\ least - 1 \notin bad
      <4>1. least - 1 \in 0 .. size /\ ~ least <= least - 1
        BY <3>0, <2>4
      <4> HIDE DEF bad
      <4> QED
        BY <2>2, <4>1
    <3>2. PICK h : IsSum(h, least - 1) /\ h \in [0 .. least - 1 -> Int]
      BY <3>1
    <3> DEFINE g == [m \in 0 .. least |-> IF m = least THEN h[least - 1] + f[least - 1] ELSE h[m]]
    <3>3. f[least - 1] \in Int
      BY <3>1, <2>2
    <3>4. g \in [0 .. least -> Int]
      <4>1. ASSUME NEW m \in 0 .. least, m # least
            PROVE  h[m] \in Int
        <5>1. m \in 0 .. least - 1
          BY <4>1, <2>2
        <5> QED
          BY <3>2, <5>1
      <4>2. h[least - 1] \in Int
        BY <3>1, <3>2
      <4> QED
        BY <3>3, <4>1, <4>2
    <3>5. ASSUME NEW m \in 0 .. least
          PROVE  g[m] = IF m = 0 THEN 0 ELSE g[m - 1] + f[m - 1]
      <4>1. CASE m = least
        BY <4>1, <2>4, <3>1, <2>2
      <4>2. CASE m # least
        <5>1. m \in 0 .. least - 1 /\ (m # 0 => m - 1 \in 0 .. least - 1)
          BY <4>2, <2>2
        <5>2. h[m] = IF m = 0 THEN 0 ELSE h[m - 1] + f[m - 1]
          BY <3>2, <5>1
        <5>3. g[m] = h[m] /\ (m # 0 => g[m - 1] = h[m - 1])
          BY <4>2, <5>1, <2>2
        <5> QED
          BY <5>2, <5>3
      <4> QED
        BY <4>1, <4>2
    <3>6. IsSum(g, least)
      <4>1. g = [m \in 0 .. least |-> g[m]]
        OBVIOUS
      <4> HIDE DEF g
      <4> QED
        BY <3>5, <4>1, Zenon
    <3> QED
      BY <2>2, <3>4, <3>6
  <2> QED
    BY <2>3, <2>4
<1>2. IsSum(total, size)
  <2>1. size \in 0 .. size
    OBVIOUS
  <2>2. \E h : IsSum(h, size)
    BY <1>1, <2>1
  <2> HIDE DEF IsSum
  <2> QED
    BY <2>2, Zenon
<1>3. Total(f, size) = total[size]
  BY DEF Total
<1> DEFINE off == {m \in 0 .. size : total[m] \notin Int}
<1>4. off = {}
  <2>1. SUFFICES ASSUME off # {} PROVE FALSE
    OBVIOUS
  <2>2. off \in SUBSET Nat
    OBVIOUS
  <2>3. PICK m \in off : \A x \in off : m <= x
    <3> HIDE DEF off
    <3> QED
      BY <2>1, <2>2, LeastNumber
  <2>4. total[m] = IF m = 0 THEN 0 ELSE total[m - 1] + f[m - 1]
    <3> HIDE DEF total
    <3> QED
      BY <1>2, <2>3
  <2>5. CASE m # 0
    <3>1. m - 1 \in 0 .. size /\ m - 1 \notin off
      BY <2>3, <2>5
    <3>2. f[m - 1] \in Int
      BY <3>1, <2>3
    <3> HIDE DEF total
    <3> QED
      BY <2>3, <2>4, <2>5, <3>1, <3>2
  <2> HIDE DEF total
  <2> QED
    BY <2>3, <2>4, <2>5
<1> HIDE DEF total
<1> QED
  BY <1>3, <1>4
-----------------------------------------------------------------------------
(***************************************************************************)
(* The invariant.                                                          *)
(***************************************************************************)
Ranges == {e \in Int \X Int : e[1] < e[2]}

NetworkTypeOK ==
  /\ CrossingsOK(meets)
  /\ phase \in {"idle", "sort", "average", "reparametrize", "build"}
  /\ profEnds \in [Profile -> Ranges] /\ guidEnds \in [Guide -> Ranges]
  /\ parmsU \in Matrix /\ parmsV \in Matrix
  /\ newU \in [Guide -> Int] /\ newV \in [Profile -> Int]
  /\ done \in Nat

AllCurvesPlaced ==
  /\ profileAt \in [Profile -> Profile] /\ guideAt \in [Guide -> Guide]
  /\ \A i, x \in Profile : profileAt[i] = profileAt[x] => i = x
  /\ \A j, x \in Guide : guideAt[j] = guideAt[x] => j = x

Ascends(f, S) == \A x \in S : x + 1 \in S => f[x] < f[x + 1]

\* A curve that has its new parameters has shown that they ascend.
NewParametersAscend ==
  /\ phase \in {"reparametrize", "build"} =>
       /\ done > 0 => Ascends(newU, Guide)
       /\ done > NProfiles => Ascends(newV, Profile)
  /\ phase = "reparametrize" => done < NProfiles + NGuides
  /\ phase = "build" => done = NProfiles + NGuides

\* Curves lose crossings, where they are cut off, and get no new ones.
NoNewCrossings ==
  /\ CrossingsOK(network.meets)
  /\ \A p \in Profile, g \in Guide : DOMAIN meets[p][g] \subseteq DOMAIN network.meets[p][g]

MeetOnce(p, g) == Cardinality(DOMAIN network.meets[p][g]) = 1

\* The sorter is given the curves in unit ranges, with where they meet.
HoldsCrossing(m, i, j, which) ==
  MeetOnce(profileAt[i], guideAt[j]) =>
    \A x \in DOMAIN meets[profileAt[i]][guideAt[j]] :
      m[i][j] = meets[profileAt[i]][guideAt[j]][x][which]

GivenToTheSorter ==
  phase = "sort" =>
    /\ input.profRange = [i \in Profile |-> UnitRange]
    /\ input.guidRange = [j \in Guide |-> UnitRange]
    /\ \A i \in Profile, j \in Guide : /\ HoldsCrossing(input.profParms, i, j, 1)
                                        /\ HoldsCrossing(input.guidParms, i, j, 2)

NetworkIInv ==
  /\ IInv
  /\ NetworkTypeOK
  /\ AllCurvesPlaced
  /\ NewParametersAscend
  /\ NoNewCrossings
  /\ GivenToTheSorter
  /\ ParametersMeetTheCurves
-----------------------------------------------------------------------------
(***************************************************************************)
(* What the steps make of the crossings.                                   *)
(***************************************************************************)
LEMMA ReparametrizedIsInt ==
  ASSUME NEW S \in SUBSET Nat, NEW old \in [S -> Int], NEW new \in [S -> Int],
         CanReparametrize(old, new), NEW x \in Int, Spans(x, old) # {}
  PROVE  Reparametrized(x, old, new) \in Int
<1> DEFINE i == Min(Spans(x, old))
           low == IF old[i] < old[i + 1] THEN i ELSE i + 1
           high == IF low = i THEN i + 1 ELSE i
           span == old[high] - old[low]
           part == 2 * (x - old[low]) * (new[high] - new[low]) + span
<1>1. i \in S /\ i + 1 \in S
  <2>1. Spans(x, old) \in SUBSET Nat
    BY DEF Spans
  <2> QED
    BY <2>1, MinIn DEF Spans
<1>2. old[i] # old[i + 1] /\ old[i] \in Int /\ old[i + 1] \in Int
  <2> HIDE DEF i
  <2> QED
    BY <1>1 DEF CanReparametrize
<1>3. low \in S /\ high \in S /\ old[low] < old[high]
  <2> HIDE DEF i
  <2> QED
    BY <1>1, <1>2
<1>4. span \in Int /\ span > 0 /\ 2 * span > 0
  <2> HIDE DEF low, high
  <2> QED
    BY <1>3
<1>5. part \in Int
  <2>1. x - old[low] \in Int /\ new[high] - new[low] \in Int
    <3> HIDE DEF low, high
    <3> QED
      BY <1>3
  <2> HIDE DEF low, high, span
  <2> QED
    BY <1>4, <2>1
<1>6. new[low] \in Int
  <2> HIDE DEF low, high
  <2> QED
    BY <1>3
<1>7. part \div (2 * span) \in Int
  <2> HIDE DEF part, span
  <2> QED
    BY <1>4, <1>5
<1>8. Reparametrized(x, old, new) = new[low] + part \div (2 * span)
  BY DEF Reparametrized
<1> HIDE DEF low, part, span
<1> QED
  BY <1>6, <1>7, <1>8

LEMMA OnNewCurveOK ==
  ASSUME NEW S \in SUBSET Nat, NEW old \in [S -> Int], NEW new \in [S -> Int],
         CanReparametrize(old, new),
         NEW crossings, AreCrossings(crossings), NEW which \in {1, 2}
  PROVE  AreCrossings(OnNewCurve(crossings, which, old, new))
<1> DEFINE kept == {y \in DOMAIN crossings : Spans(crossings[y][which], old) # {}}
           changed == OnNewCurve(crossings, which, old, new)
<1>1. DOMAIN changed = kept
  BY DEF OnNewCurve
<1>2. kept \subseteq Nat /\ IsFiniteSet(kept)
  <2>1. kept \subseteq DOMAIN crossings
    OBVIOUS
  <2> QED
    BY <2>1, FS_Subset DEF AreCrossings
<1>3. ASSUME NEW y \in kept
      PROVE  changed[y] \in Int \X Int
  <2>1. crossings[y] \in Int \X Int
    BY DEF AreCrossings
  <2>2. crossings[y][which] \in Int
    BY <2>1
  <2> DEFINE moved == Reparametrized(crossings[y][which], old, new)
  <2>3. moved \in Int
    BY <2>2, ReparametrizedIsInt
  <2>4. changed[y] = [crossings[y] EXCEPT ![which] = moved]
    BY DEF OnNewCurve
  <2> HIDE DEF moved, changed, kept
  <2> QED
    BY <2>1, <2>3, <2>4
<1> HIDE DEF kept, changed
<1> QED
  BY <1>1, <1>2, <1>3 DEF AreCrossings, changed

\* A curve that is reparametrized loses crossings, and those it keeps stay where
\* they are on the other curve.
LEMMA OtherParameterKept ==
  ASSUME NEW crossings, AreCrossings(crossings), NEW old, NEW new
  PROVE  LET changed == OnNewCurve(crossings, 1, old, new) IN
         /\ DOMAIN changed \subseteq DOMAIN crossings
         /\ \A x \in DOMAIN changed : changed[x][2] = crossings[x][2]
<1> DEFINE changed == OnNewCurve(crossings, 1, old, new)
<1>1. DOMAIN changed \subseteq DOMAIN crossings
  BY DEF OnNewCurve
<1>2. ASSUME NEW x \in DOMAIN changed
      PROVE  changed[x][2] = crossings[x][2]
  <2>1. PICK moved : moved = Reparametrized(crossings[x][1], old, new)
    OBVIOUS
  <2>2. changed[x] = [crossings[x] EXCEPT ![1] = moved]
    BY <2>1 DEF OnNewCurve
  <2>3. crossings[x] \in Int \X Int
    BY <1>1 DEF AreCrossings
  <2> HIDE DEF changed
  <2> QED
    BY <2>2, <2>3
<1> QED
  BY <1>1, <1>2

LEMMA InUnitRangeOK ==
  ASSUME NetworkTypeOK, NEW p \in Profile, NEW g \in Guide
  PROVE  AreCrossings(InUnitRange(p, g))
<1> DEFINE c == meets[p][g]
<1>1. AreCrossings(c)
  BY DEF NetworkTypeOK, CrossingsOK
<1>2. DOMAIN InUnitRange(p, g) = DOMAIN c
  BY DEF InUnitRange
<1>3. ASSUME NEW x \in DOMAIN c
      PROVE  InUnitRange(p, g)[x] \in Int \X Int
  <2>1. c[x] \in Int \X Int
    BY <1>1 DEF AreCrossings
  <2>2. /\ profEnds[p] \in Ranges /\ guidEnds[g] \in Ranges /\ One \in Int
    BY NetworkSizeAssumption DEF NetworkTypeOK
  <2>3. ASSUME NEW y \in Int, NEW e \in Ranges PROVE InUnit(y, e) \in Int
    <3>1. (y - e[1]) * One \in Int /\ e[2] - e[1] \in Int /\ e[2] - e[1] > 0
      BY <2>2 DEF Ranges
    <3>2. ((y - e[1]) * One) \div (e[2] - e[1]) \in Int
      BY <3>1
    <3> QED
      BY <3>2 DEF InUnit
  <2>4. InUnit(c[x][1], profEnds[p]) \in Int /\ InUnit(c[x][2], guidEnds[g]) \in Int
    BY <2>1, <2>2, <2>3
  <2>5. InUnitRange(p, g)[x] = <<InUnit(c[x][1], profEnds[p]), InUnit(c[x][2], guidEnds[g])>>
    BY DEF InUnitRange
  <2> QED
    BY <2>4, <2>5
<1> QED
  BY <1>1, <1>2, <1>3 DEF AreCrossings

LEMMA CellsAreInt ==
  ASSUME NetworkTypeOK, AllCurvesPlaced, CanIntersect,
         NEW i \in Profile, NEW j \in Guide,
         NEW leftU \in [UnsetU -> Leftovers], NEW leftV \in [UnsetV -> Leftovers]
  PROVE  CellU(i, j, leftU) \in Int /\ CellV(i, j, leftV) \in Int
<1> DEFINE cell == Cell(i, j)
<1>1. AreCrossings(cell)
  BY InUnitRangeOK DEF Cell, AllCurvesPlaced
<1>2. DOMAIN cell # {}
  <2>1. Crossings(i, j) \in {1, 2}
    BY DEF CanIntersect
  <2>2. Cardinality({}) = 0
    BY FS_EmptySet
  <2> QED
    BY <2>1, <2>2 DEF Crossings
<1>3. Min(DOMAIN cell) \in DOMAIN cell /\ Max(DOMAIN cell) \in DOMAIN cell
  BY <1>1, <1>2, MinIn, MaxIn DEF AreCrossings
<1>4. /\ First(i, j, 1) \in Int /\ Second(i, j, 1) \in Int
      /\ First(i, j, 2) \in Int /\ Second(i, j, 2) \in Int
  <2> HIDE DEF cell
  <2>1. cell[Min(DOMAIN cell)] \in Int \X Int /\ cell[Max(DOMAIN cell)] \in Int \X Int
    BY <1>1, <1>3 DEF AreCrossings
  <2> QED
    BY <2>1 DEF First, Second, cell
<1>5. Leftovers \subseteq Int
  BY LeftoversAssumption
<1>6. CellU(i, j, leftU) \in Int
  <2>1. IsUnsetU(i, j) => <<i, j>> \in UnsetU /\ leftU[<<i, j>>] \in Leftovers
    BY DEF UnsetU
  <2> QED
    BY <1>4, <1>5, <2>1 DEF CellU
<1>7. CellV(i, j, leftV) \in Int
  <2>1. IsUnsetV(i, j) => <<i, j>> \in UnsetV /\ leftV[<<i, j>>] \in Leftovers
    BY DEF UnsetV
  <2> QED
    BY <1>4, <1>5, <2>1 DEF CellV
<1> QED
  BY <1>6, <1>7
-----------------------------------------------------------------------------
(***************************************************************************)
(* The steps keep the invariant.                                           *)
(***************************************************************************)
LEMMA FreshIInvNext == Fresh' => IInv'
BY FreshIInv, PTL

LEMMA SorterInputOK ==
  ASSUME NEW u \in Matrix, NEW v \in Matrix
  PROVE  IsInput(SorterInput(u, v))
<1>1. UnitRange \in CurveRange
  BY NetworkSizeAssumption DEF CurveRange, UnitRange
<1> QED
  BY <1>1 DEF IsInput, SorterInput

LEMMA InitMakesFresh == NetworkInit => Fresh
<1>1. NoMatrix \in Matrix
  BY DEF NoMatrix, Matrix
<1>2. IsInput(SorterInput(NoMatrix, NoMatrix))
  BY <1>1, SorterInputOK
<1>3. /\ SorterInput(NoMatrix, NoMatrix).profParms = NoMatrix
      /\ SorterInput(NoMatrix, NoMatrix).guidParms = NoMatrix
  BY DEF SorterInput
<1> QED
  BY <1>2, <1>3 DEF NetworkInit, Fresh

LEMMA InitNetworkIInv == NetworkInit => NetworkIInv
<1> SUFFICES ASSUME NetworkInit PROVE NetworkIInv
  OBVIOUS
<1>1. NoMatrix \in Matrix
  BY DEF NoMatrix, Matrix
<1>2. IInv
  BY InitMakesFresh, FreshIInv
<1>3. NetworkTypeOK
  <2>1. CrossingsOK(meets)
    BY NetworksAssumption DEF NetworkInit
  <2>2. UnitRange \in Ranges
    BY NetworkSizeAssumption DEF SnapTol, Ranges, UnitRange
  <2> QED
    BY <1>1, <2>1, <2>2 DEF NetworkInit, NetworkTypeOK
<1>4. AllCurvesPlaced
  BY DEF NetworkInit, AllCurvesPlaced
<1>5. NoNewCrossings
  BY NetworksAssumption DEF NetworkInit, NoNewCrossings
<1> QED
  BY <1>2, <1>3, <1>4, <1>5
  DEF NetworkIInv, NetworkInit, NewParametersAscend, GivenToTheSorter, ParametersMeetTheCurves

\* Nothing changes.
LEMMA QuietNetwork ==
  ASSUME NetworkIInv, UNCHANGED <<networkVars, vars>>
  PROVE  NetworkIInv'
<1>1. UNCHANGED vars /\ UNCHANGED networkVars
  OBVIOUS
<1>2. IInv'
  BY <1>1, NextIInv DEF NetworkIInv
<1>3. /\ UNCHANGED <<network, hasPerformed, failures, surfaces, meets, profEnds, guidEnds>>
      /\ UNCHANGED <<profileAt, guideAt, parmsU, parmsV, newU, newV, phase, done, input>>
  BY <1>1 DEF networkVars, object, networkCurves, shapes, networkParms, vars
<1>4. NetworkTypeOK' /\ AllCurvesPlaced' /\ NewParametersAscend'
  BY <1>3 DEF NetworkIInv, NetworkTypeOK, AllCurvesPlaced, NewParametersAscend
<1>5. NoNewCrossings' /\ ParametersMeetTheCurves'
  BY <1>3 DEF NetworkIInv, NoNewCrossings, ParametersMeetTheCurves
<1>6. GivenToTheSorter'
  BY <1>3 DEF NetworkIInv, GivenToTheSorter, HoldsCrossing, MeetOnce
<1> QED
  BY <1>2, <1>4, <1>5, <1>6 DEF NetworkIInv

\* A call that throws leaves the curves as they are.
LEMMA ThrowKeeps ==
  ASSUME NetworkIInv, phase # "idle", Throw,
         UNCHANGED <<networkCurves, networkParms, done, vars>>
  PROVE  NetworkIInv'
<1>1. IInv'
  BY NextIInv DEF NetworkIInv
<1>2. /\ UNCHANGED <<network, meets, profEnds, guidEnds, profileAt, guideAt>>
      /\ UNCHANGED <<parmsU, parmsV, newU, newV, done>>
      /\ phase' = "idle"
  BY DEF networkCurves, shapes, networkParms, Throw
<1>3. NetworkTypeOK' /\ AllCurvesPlaced' /\ NewParametersAscend' /\ NoNewCrossings'
  BY <1>2 DEF NetworkIInv, NetworkTypeOK, AllCurvesPlaced, NewParametersAscend, NoNewCrossings
<1>4. GivenToTheSorter' /\ ParametersMeetTheCurves'
  BY <1>2 DEF GivenToTheSorter, ParametersMeetTheCurves
<1> QED
  BY <1>1, <1>3, <1>4 DEF NetworkIInv

LEMMA UnitRangeKeeps ==
  ASSUME NetworkTypeOK, NoNewCrossings, ReparametrizeToUnitRange, UNCHANGED network
  PROVE  /\ CrossingsOK(meets')
         /\ profEnds' \in [Profile -> Ranges] /\ guidEnds' \in [Guide -> Ranges]
         /\ NoNewCrossings'
<1>1. CrossingsOK(meets')
  BY InUnitRangeOK DEF ReparametrizeToUnitRange, CrossingsOK
<1>2. UnitRange \in Ranges
  BY NetworkSizeAssumption DEF SnapTol, Ranges, UnitRange
<1>3. ASSUME NEW p \in Profile, NEW g \in Guide PROVE DOMAIN meets'[p][g] = DOMAIN meets[p][g]
  BY DEF ReparametrizeToUnitRange, InUnitRange
<1>4. NoNewCrossings'
  BY <1>3 DEF NoNewCrossings
<1> QED
  BY <1>1, <1>2, <1>4 DEF ReparametrizeToUnitRange

LEMMA IntersectMakesFresh ==
  ASSUME NetworkTypeOK, AllCurvesPlaced, Intersect
  PROVE  Fresh'
<1>1. PICK leftU \in [UnsetU -> Leftovers], leftV \in [UnsetV -> Leftovers] :
        NewSorter([i \in Profile |-> [j \in Guide |-> CellU(i, j, leftU)]],
                  [i \in Profile |-> [j \in Guide |-> CellV(i, j, leftV)]])
  BY DEF Intersect
<1> DEFINE u == [i \in Profile |-> [j \in Guide |-> CellU(i, j, leftU)]]
           v == [i \in Profile |-> [j \in Guide |-> CellV(i, j, leftV)]]
<1>2. CanIntersect
  BY DEF Intersect
<1>3. u \in Matrix /\ v \in Matrix
  BY <1>2, CellsAreInt DEF Matrix
<1> HIDE DEF u, v
<1>4. IsInput(SorterInput(u, v))
  BY <1>3, SorterInputOK
<1>5. SorterInput(u, v).profParms = u /\ SorterInput(u, v).guidParms = v
  BY DEF SorterInput
<1>6. NewSorter(u, v)
  BY <1>1 DEF u, v
<1> QED
  BY <1>4, <1>5, <1>6 DEF NewSorter, Fresh

\* Two curves that meet once have that crossing in their cell.
LEMMA CellIsCrossing ==
  ASSUME NetworkTypeOK, AllCurvesPlaced, NoNewCrossings, CanIntersect,
         NEW i \in Profile, NEW j \in Guide, MeetOnce(profileAt[i], guideAt[j]),
         NEW leftU, NEW leftV, NEW x \in DOMAIN Cell(i, j)
  PROVE  CellU(i, j, leftU) = Cell(i, j)[x][1] /\ CellV(i, j, leftV) = Cell(i, j)[x][2]
<1>1. PICK cell : cell = Cell(i, j)
  OBVIOUS
<1>2. PICK p \in Profile, g \in Guide : p = profileAt[i] /\ g = guideAt[j]
  BY DEF AllCurvesPlaced
<1>3. DOMAIN cell = DOMAIN meets[p][g]
  BY <1>1, <1>2 DEF Cell, InUnitRange
<1>4. PICK D : D = DOMAIN network.meets[p][g]
  OBVIOUS
<1>5. IsFiniteSet(D) /\ Cardinality(D) = 1 /\ D \subseteq Nat /\ DOMAIN cell \subseteq D
  BY <1>2, <1>3, <1>4 DEF MeetOnce, NoNewCrossings, CrossingsOK, AreCrossings
<1>6. \E y : D = {y}
  BY <1>5, FS_Singleton
<1>7. DOMAIN cell = {x}
  BY <1>1, <1>5, <1>6
<1>8. Cardinality(DOMAIN cell) = 1
  BY <1>7, FS_Singleton
<1>9. Crossings(i, j) = 1
  BY <1>1, <1>8 DEF Crossings
<1>10. ~ Twice(i, j)
  BY <1>9 DEF Twice
<1>11. Min(DOMAIN cell) = x
  <2>1. DOMAIN cell \subseteq Nat /\ DOMAIN cell # {}
    BY <1>5, <1>7, Zenon
  <2>3. IsFiniteSet(DOMAIN cell)
    BY <1>7, FS_Singleton
  <2>2. Min(DOMAIN cell) \in DOMAIN cell
    BY <2>1, <2>3, MinIn
  <2> QED
    BY <1>7, <2>2
<1>12. First(i, j, 1) = cell[x][1] /\ First(i, j, 2) = cell[x][2]
  BY <1>1, <1>11 DEF First
<1>13. CellU(i, j, leftU) = First(i, j, 1)
  BY <1>10 DEF CellU, IsUnsetU
<1>14. CellV(i, j, leftV) = First(i, j, 2)
  BY <1>10 DEF CellV, IsUnsetV
<1> QED
  BY <1>1, <1>12, <1>13, <1>14

LEMMA IntersectGives ==
  ASSUME NetworkTypeOK, AllCurvesPlaced, NoNewCrossings, Intersect
  PROVE  GivenToTheSorter'
<1>1. PICK leftU \in [UnsetU -> Leftovers], leftV \in [UnsetV -> Leftovers] :
        NewSorter([i \in Profile |-> [j \in Guide |-> CellU(i, j, leftU)]],
                  [i \in Profile |-> [j \in Guide |-> CellV(i, j, leftV)]])
  BY DEF Intersect
<1>2. /\ input'.profRange = [i \in Profile |-> UnitRange]
      /\ input'.guidRange = [j \in Guide |-> UnitRange]
      /\ input'.profParms = [i \in Profile |-> [j \in Guide |-> CellU(i, j, leftU)]]
      /\ input'.guidParms = [i \in Profile |-> [j \in Guide |-> CellV(i, j, leftV)]]
  BY <1>1 DEF NewSorter, SorterInput
<1>3. /\ meets' = [p \in Profile |-> [g \in Guide |-> InUnitRange(p, g)]]
      /\ UNCHANGED <<network, profileAt, guideAt>> /\ CanIntersect
  BY DEF Intersect, ReparametrizeToUnitRange, Continue, object
<1>4. ASSUME NEW i \in Profile, NEW j \in Guide,
             MeetOnce(profileAt[i], guideAt[j]),
             NEW x \in DOMAIN (meets'[profileAt[i]][guideAt[j]])
      PROVE  /\ input'.profParms[i][j] = meets'[profileAt[i]][guideAt[j]][x][1]
             /\ input'.guidParms[i][j] = meets'[profileAt[i]][guideAt[j]][x][2]
  <2>1. meets'[profileAt[i]][guideAt[j]] = Cell(i, j)
    BY <1>3 DEF Cell, AllCurvesPlaced
  <2>2. CellU(i, j, leftU) = Cell(i, j)[x][1] /\ CellV(i, j, leftV) = Cell(i, j)[x][2]
    BY <1>3, <1>4, <2>1, CellIsCrossing
  <2> QED
    BY <1>2, <2>1, <2>2
<1>5. profileAt' = profileAt /\ guideAt' = guideAt /\ network' = network
  BY <1>3
<1>6. ASSUME NEW i \in Profile, NEW j \in Guide
      PROVE  /\ HoldsCrossing(input.profParms, i, j, 1)'
             /\ HoldsCrossing(input.guidParms, i, j, 2)'
  <2>1. SUFFICES ASSUME MeetOnce(profileAt[i], guideAt[j])'
                 PROVE  \A x \in DOMAIN (meets'[profileAt'[i]][guideAt'[j]]) :
                          /\ input'.profParms[i][j] = meets'[profileAt'[i]][guideAt'[j]][x][1]
                          /\ input'.guidParms[i][j] = meets'[profileAt'[i]][guideAt'[j]][x][2]
    BY Zenon DEF HoldsCrossing
  <2>2. MeetOnce(profileAt[i], guideAt[j])
    BY <1>5, <2>1 DEF MeetOnce
  <2> QED
    BY <1>4, <1>5, <2>2
<1> QED
  BY <1>2, <1>6 DEF GivenToTheSorter

LEMMA IntersectKeeps ==
  ASSUME NetworkIInv, Intersect
  PROVE  NetworkIInv'
<1>1. NetworkTypeOK /\ AllCurvesPlaced /\ NoNewCrossings
  BY DEF NetworkIInv
<1>2. IInv'
  BY <1>1, IntersectMakesFresh, FreshIInvNext
<1>3. /\ UNCHANGED <<network, profileAt, guideAt, parmsU, parmsV, newU, newV, done>>
      /\ phase' = "sort" /\ ReparametrizeToUnitRange
  BY DEF Intersect, networkParms, Continue, object
<1>4. NetworkTypeOK' /\ AllCurvesPlaced' /\ NewParametersAscend' /\ NoNewCrossings'
  BY <1>1, <1>3, UnitRangeKeeps DEF NetworkTypeOK, AllCurvesPlaced, NewParametersAscend
<1>5. GivenToTheSorter' /\ ParametersMeetTheCurves'
  BY <1>1, <1>3, IntersectGives DEF ParametersMeetTheCurves
<1> QED
  BY <1>2, <1>4, <1>5 DEF NetworkIInv

LEMMA DoNotIntersectKeeps ==
  ASSUME NetworkIInv, DoNotIntersect
  PROVE  NetworkIInv'
<1>1. IInv'
  BY NextIInv DEF NetworkIInv, DoNotIntersect
<1>2. /\ UNCHANGED <<network, profileAt, guideAt, parmsU, parmsV, newU, newV, done>>
      /\ phase' = "idle" /\ ReparametrizeToUnitRange
  BY DEF DoNotIntersect, networkParms, Throw
<1>3. NetworkTypeOK' /\ AllCurvesPlaced' /\ NewParametersAscend' /\ NoNewCrossings'
  BY <1>2, UnitRangeKeeps DEF NetworkIInv, NetworkTypeOK, AllCurvesPlaced, NewParametersAscend
<1>4. GivenToTheSorter' /\ ParametersMeetTheCurves'
  BY <1>2 DEF GivenToTheSorter, ParametersMeetTheCurves
<1> QED
  BY <1>1, <1>3, <1>4 DEF NetworkIInv

LEMMA SortKeeps ==
  ASSUME NetworkIInv, Sort
  PROVE  NetworkIInv'
<1>1. IInv'
  BY NextIInv DEF NetworkIInv, Sort
<1>2. /\ UNCHANGED <<network, meets, profEnds, guidEnds, profileAt, guideAt, parmsU, parmsV>>
      /\ UNCHANGED <<newU, newV, done, phase>> /\ phase = "sort" /\ Next
  BY DEF Sort, object, networkCurves, shapes, networkParms
<1>3. NetworkTypeOK' /\ AllCurvesPlaced' /\ NewParametersAscend' /\ NoNewCrossings'
  BY <1>2 DEF NetworkIInv, NetworkTypeOK, AllCurvesPlaced, NewParametersAscend, NoNewCrossings
<1>4. UNCHANGED input
  BY <1>2 DEF Next, StartAtCorner, StartInLoop, ReverseFirstGuide, NoStart, CompareGuides,
              CompareProfiles, NextPass, GuidesSorted, ProfilesSorted, CheckProfile,
              ProfilesChecked, CheckGuide, GuidesChecked, Stopped, vars
<1>5. GivenToTheSorter'
  BY <1>2, <1>4 DEF NetworkIInv, GivenToTheSorter, HoldsCrossing, MeetOnce
<1>6. ParametersMeetTheCurves'
  BY <1>2 DEF ParametersMeetTheCurves
<1> QED
  BY <1>1, <1>3, <1>5, <1>6 DEF NetworkIInv

LEMMA EliminatedIsNear ==
  ASSUME NEW m \in Matrix, NEW i \in Profile, NEW j \in Guide, NEW firsts, NEW lasts
  PROVE  /\ Eliminated(m, i, j, firsts, lasts) \in Int
         /\ IsWithin(Eliminated(m, i, j, firsts, lasts), m[i][j], SnapTol)
<1>1. m[i][j] \in Int
  BY DEF Matrix
<1> QED
  BY <1>1, NetworkSizeAssumption DEF Eliminated, Snap, SnapTol, IsWithin

CrossingsTurned(p, g, i, j) ==
  /\ DOMAIN meets'[p][g] = DOMAIN meets[p][g]
  /\ \A x \in DOMAIN meets[p][g] :
       meets'[p][g][x] = <<Turned(meets[p][g][x][1], profiles[i] \in profReversed),
                           Turned(meets[p][g][x][2], guides[j] \in guidReversed)>>

\* The curves go to the places of the sorter, with their crossings turned.
LEMMA TakenCurves ==
  ASSUME NetworkIInv, TakeSorted, NEW i \in Profile, NEW j \in Guide,
         NEW p, NEW g, p = profileAt'[i], g = guideAt'[j]
  PROVE  /\ p = profileAt[profiles[i]] /\ g = guideAt[guides[j]]
         /\ profiles[i] \in Profile /\ guides[j] \in Guide
         /\ CrossingsTurned(p, g, i, j)
<1>1. /\ profiles[i] \in Profile /\ guides[j] \in Guide
      /\ profReversed \subseteq Profile /\ guidReversed \subseteq Guide
  BY DEF NetworkIInv, IInv, TypeOK
<1>2. p = profileAt[profiles[i]] /\ g = guideAt[guides[j]]
  BY DEF TakeSorted
<1>3. /\ p \in TurnedProfiles <=> profiles[i] \in profReversed
      /\ g \in TurnedGuides <=> guides[j] \in guidReversed
  BY <1>1, <1>2 DEF TurnedProfiles, TurnedGuides, NetworkIInv, AllCurvesPlaced
<1>4. p \in Profile /\ g \in Guide
  BY <1>1, <1>2 DEF NetworkIInv, AllCurvesPlaced
<1>5. meets' = [q \in Profile |-> [h \in Guide |->
                  [x \in DOMAIN meets[q][h] |->
                     <<Turned(meets[q][h][x][1], q \in TurnedProfiles),
                       Turned(meets[q][h][x][2], h \in TurnedGuides)>>]]]
  BY DEF TakeSorted
<1>6. meets'[p][g] = [x \in DOMAIN meets[p][g] |->
                        <<Turned(meets[p][g][x][1], p \in TurnedProfiles),
                          Turned(meets[p][g][x][2], g \in TurnedGuides)>>]
  BY <1>4, <1>5
<1>7. ASSUME NEW x \in DOMAIN meets[p][g]
      PROVE  meets'[p][g][x] = <<Turned(meets[p][g][x][1], profiles[i] \in profReversed),
                                 Turned(meets[p][g][x][2], guides[j] \in guidReversed)>>
  BY <1>3, <1>6 DEF Turned
<1> QED
  BY <1>1, <1>2, <1>6, <1>7 DEF CrossingsTurned

LEMMA TakenParameters ==
  ASSUME NetworkIInv, TakeSorted
  PROVE  ParametersMeetTheCurves'
<1>1. phase = "sort" /\ phase' = "average" /\ UNCHANGED network
  BY DEF TakeSorted, Continue, object
<1> SUFFICES ASSUME NEW i \in Profile, NEW j \in Guide,
                    MeetOnce(profileAt'[i], guideAt'[j]),
                    NEW x \in DOMAIN (meets'[profileAt'[i]][guideAt'[j]])
             PROVE  /\ IsWithin(parmsU'[i][j], meets'[profileAt'[i]][guideAt'[j]][x][1], SnapTol)
                    /\ IsWithin(parmsV'[i][j], meets'[profileAt'[i]][guideAt'[j]][x][2], SnapTol)
  BY <1>1 DEF ParametersMeetTheCurves, MeetOnce
<1>2. PICK a \in Profile, b \in Guide : a = profiles[i] /\ b = guides[j]
  BY TakenCurves
<1>0. PICK p, g : p = profileAt'[i] /\ g = guideAt'[j]
  OBVIOUS
<1>3. p = profileAt[a] /\ g = guideAt[b]
  BY <1>0, <1>2, TakenCurves
<1>4. /\ profileAt'[i] = p /\ guideAt'[j] = g /\ x \in DOMAIN meets[p][g]
      /\ meets'[p][g][x] = <<Turned(meets[p][g][x][1], profiles[i] \in profReversed),
                             Turned(meets[p][g][x][2], guides[j] \in guidReversed)>>
  <2>1. CrossingsTurned(p, g, i, j)
    BY <1>0, TakenCurves
  <2>2. x \in DOMAIN meets'[p][g]
    BY <1>0
  <2> QED
    BY <1>0, <2>1, <2>2 DEF CrossingsTurned
<1>5. /\ input.profParms[a][b] = meets[p][g][x][1]
      /\ input.guidParms[a][b] = meets[p][g][x][2]
      /\ input.profRange[a] = UnitRange /\ input.guidRange[b] = UnitRange
  <2>1. /\ input.profRange = [q \in Profile |-> UnitRange]
        /\ input.guidRange = [q \in Guide |-> UnitRange]
        /\ HoldsCrossing(input.profParms, a, b, 1)
        /\ HoldsCrossing(input.guidParms, a, b, 2)
    BY <1>1 DEF NetworkIInv, GivenToTheSorter
  <2>2. MeetOnce(p, g)
    BY <1>0, <1>1 DEF MeetOnce
  <2>3. /\ input.profParms[a][b] = meets[p][g][x][1]
        /\ input.guidParms[a][b] = meets[p][g][x][2]
    BY <1>3, <1>4, <2>1, <2>2 DEF HoldsCrossing
  <2> QED
    BY <2>1, <2>3
<1>6. UnitRange # NullCurve /\ UnitRange[1] = 0 /\ UnitRange[2] = One
  BY DEF UnitRange, NullCurve
<1>7. meets[p][g][x][1] \in Int /\ meets[p][g][x][2] \in Int /\ One \in Int
  <2>1. p \in Profile /\ g \in Guide
    BY <1>2, <1>3 DEF NetworkIInv, AllCurvesPlaced
  <2>2. meets[p][g][x] \in Int \X Int
    BY <1>4, <2>1 DEF NetworkIInv, NetworkTypeOK, CrossingsOK, AreCrossings
  <2> QED
    BY <2>2, NetworkSizeAssumption
<1>8. /\ profParms[i][j] = Now(input.profParms[a][b], input.profRange[a], a \in profReversed)
      /\ guidParms[i][j] = Now(input.guidParms[a][b], input.guidRange[b], b \in guidReversed)
  BY <1>2, <1>5, <1>6 DEF NetworkIInv, IInv, ParametersFollowCurves
<1>9. /\ profParms[i][j] = Turned(meets[p][g][x][1], a \in profReversed)
      /\ guidParms[i][j] = Turned(meets[p][g][x][2], b \in guidReversed)
  BY <1>5, <1>6, <1>7, <1>8 DEF Now, Turned
<1>10. /\ parmsU'[i][j] = Eliminated(profParms, i, j, Profile \X {0}, Profile \X {NGuides - 1})
       /\ parmsV'[i][j] = Eliminated(guidParms, i, j, {0} \X Guide, {NProfiles - 1} \X Guide)
  BY DEF TakeSorted
<1>11. profParms \in Matrix /\ guidParms \in Matrix
  BY DEF NetworkIInv, IInv, TypeOK
<1>12. /\ meets'[p][g][x][1] = Turned(meets[p][g][x][1], a \in profReversed)
       /\ meets'[p][g][x][2] = Turned(meets[p][g][x][2], b \in guidReversed)
  BY <1>2, <1>4 DEF Turned
<1>13. meets'[p][g][x][1] = profParms[i][j] /\ meets'[p][g][x][2] = guidParms[i][j]
  BY <1>9, <1>12, Zenon
<1> QED
  BY <1>4, <1>13, <1>10, <1>11, EliminatedIsNear

LEMMA TakeSortedKeeps ==
  ASSUME NetworkIInv, TakeSorted
  PROVE  NetworkIInv'
<1>1. IInv'
  BY NextIInv DEF NetworkIInv, TakeSorted
<1>2. /\ UNCHANGED <<network, profEnds, guidEnds, newU, newV, done>>
      /\ phase = "sort" /\ phase' = "average"
  BY DEF TakeSorted, Continue, object
<1>3. /\ profiles \in [Profile -> Profile] /\ guides \in [Guide -> Guide]
      /\ profParms \in Matrix /\ guidParms \in Matrix /\ CurvesArePermuted
  BY DEF NetworkIInv, IInv, TypeOK
<1>4. AllCurvesPlaced'
  <2>1. /\ profileAt' = [i \in Profile |-> profileAt[profiles[i]]]
        /\ guideAt' = [j \in Guide |-> guideAt[guides[j]]]
    BY DEF TakeSorted
  <2> QED
    BY <1>3, <2>1 DEF NetworkIInv, AllCurvesPlaced, CurvesArePermuted
<1>5. meets' = [p \in Profile |-> [g \in Guide |->
                  [x \in DOMAIN meets[p][g] |->
                     <<Turned(meets[p][g][x][1], p \in TurnedProfiles),
                       Turned(meets[p][g][x][2], g \in TurnedGuides)>>]]]
  BY DEF TakeSorted
<1>6. CrossingsOK(meets')
  <2>1. ASSUME NEW p \in Profile, NEW g \in Guide
        PROVE  AreCrossings(meets'[p][g])
    <3>1. AreCrossings(meets[p][g])
      BY DEF NetworkIInv, NetworkTypeOK, CrossingsOK
    <3>2. DOMAIN meets'[p][g] = DOMAIN meets[p][g]
      BY <1>5
    <3>3. ASSUME NEW x \in DOMAIN meets[p][g]
          PROVE  meets'[p][g][x] \in Int \X Int
      <4>1. meets[p][g][x] \in Int \X Int
        BY <3>1 DEF AreCrossings
      <4>2. One \in Int
        BY NetworkSizeAssumption
      <4>3. /\ Turned(meets[p][g][x][1], p \in TurnedProfiles) \in Int
            /\ Turned(meets[p][g][x][2], g \in TurnedGuides) \in Int
        BY <4>1, <4>2 DEF Turned
      <4> QED
        BY <1>5, <4>3
    <3> QED
      BY <3>1, <3>2, <3>3 DEF AreCrossings
  <2> QED
    BY <1>5, <2>1 DEF CrossingsOK
<1>7. parmsU' \in Matrix /\ parmsV' \in Matrix
  <2> DEFINE Cleaned(m, firsts, lasts) ==
        [i \in Profile |-> [j \in Guide |-> Eliminated(m, i, j, firsts, lasts)]]
  <2>1. ASSUME NEW m \in Matrix, NEW firsts, NEW lasts
        PROVE  Cleaned(m, firsts, lasts) \in Matrix
    BY EliminatedIsNear DEF Matrix
  <2>2. /\ parmsU' = Cleaned(profParms, Profile \X {0}, Profile \X {NGuides - 1})
        /\ parmsV' = Cleaned(guidParms, {0} \X Guide, {NProfiles - 1} \X Guide)
    BY DEF TakeSorted
  <2> HIDE DEF Cleaned
  <2> QED
    BY <1>3, <2>1, <2>2
<1>8. NetworkTypeOK' /\ NewParametersAscend'
  BY <1>2, <1>6, <1>7 DEF NetworkIInv, NetworkTypeOK, NewParametersAscend
<1>9. NoNewCrossings'
  <2>1. ASSUME NEW p \in Profile, NEW g \in Guide PROVE DOMAIN meets'[p][g] = DOMAIN meets[p][g]
    BY <1>5
  <2> QED
    BY <1>2, <2>1 DEF NetworkIInv, NoNewCrossings
<1>10. GivenToTheSorter' /\ ParametersMeetTheCurves'
  BY <1>2, TakenParameters DEF GivenToTheSorter
<1> QED
  BY <1>1, <1>4, <1>8, <1>9, <1>10 DEF NetworkIInv

LEMMA AverageKeeps ==
  ASSUME NetworkIInv, Average
  PROVE  NetworkIInv'
<1>1. IInv'
  BY NextIInv DEF NetworkIInv, Average
<1>2. /\ UNCHANGED <<network, meets, profEnds, guidEnds, profileAt, guideAt, parmsU, parmsV>>
      /\ phase = "average" /\ phase' = "reparametrize" /\ done' = 0
  BY DEF Average, Continue, object, networkCurves, shapes
<1>3. /\ NProfiles \in Nat /\ NProfiles > 0 /\ NGuides \in Nat /\ NGuides > 0
  BY SizeAssumption
<1>4. newU' \in [Guide -> Int]
  <2>1. newU' = [j \in Guide |-> SumU(j) \div NProfiles]
    BY DEF Average
  <2>2. ASSUME NEW j \in Guide
        PROVE  SumU(j) \in Int
    <3>1. \A m \in 0 .. NProfiles : m # NProfiles => Col(parmsU, j)[m] \in Int
      BY <1>3 DEF Col, NetworkIInv, NetworkTypeOK, Matrix, Profile
    <3> QED
      BY <1>3, <3>1, TotalIsInt DEF SumU
  <2> QED
    BY <1>3, <2>1, <2>2
<1>5. newV' \in [Profile -> Int]
  <2>1. newV' = [i \in Profile |-> SumV(i) \div NGuides]
    BY DEF Average
  <2>2. ASSUME NEW i \in Profile
        PROVE  SumV(i) \in Int
    <3>1. \A m \in 0 .. NGuides : m # NGuides => Row(parmsV, i)[m] \in Int
      BY <1>3 DEF Row, NetworkIInv, NetworkTypeOK, Matrix, Guide
    <3> QED
      BY <1>3, <3>1, TotalIsInt DEF SumV
  <2> QED
    BY <1>3, <2>1, <2>2
<1>6. NetworkTypeOK' /\ AllCurvesPlaced' /\ NoNewCrossings'
  BY <1>2, <1>4, <1>5 DEF NetworkIInv, NetworkTypeOK, AllCurvesPlaced, NoNewCrossings
<1>7. NewParametersAscend' /\ GivenToTheSorter'
  BY <1>2, <1>3 DEF NewParametersAscend, GivenToTheSorter
<1>8. ParametersMeetTheCurves'
  BY <1>2 DEF NetworkIInv, ParametersMeetTheCurves
<1> QED
  BY <1>1, <1>6, <1>7, <1>8 DEF NetworkIInv

\* Integers that ascend end above where they begin.
LEMMA LastIsGreater ==
  ASSUME NEW last \in Nat \ {0}, NEW f \in [0 .. last -> Int], Ascends(f, 0 .. last)
  PROVE  f[0] < f[last]
<1> DEFINE low == {x \in 0 .. last : f[x] < f[0] + x}
<1>1. low = {}
  <2>1. SUFFICES ASSUME low # {} PROVE FALSE
    OBVIOUS
  <2>2. low \in SUBSET Nat
    OBVIOUS
  <2>3. PICK m \in low : \A x \in low : m <= x
    <3> HIDE DEF low
    <3> QED
      BY <2>1, <2>2, LeastNumber
  <2>4. m # 0 /\ m - 1 \in 0 .. last /\ m = (m - 1) + 1 /\ m \in 0 .. last
    BY <2>3
  <2>5. f[m - 1] >= f[0] + (m - 1)
    BY <2>3, <2>4
  <2>6. f[m - 1] < f[m]
    BY <2>4 DEF Ascends
  <2> QED
    BY <2>3, <2>4, <2>5, <2>6
<1> QED
  BY <1>1

LEMMA CanAscend ==
  ASSUME NEW S, NEW old, NEW new, DOMAIN old = S, CanReparametrize(old, new)
  PROVE  Ascends(new, S)
BY DEF CanReparametrize, Ascends

LEMMA ReparametrizeProfileKeeps ==
  ASSUME NetworkIInv, ReparametrizeProfile
  PROVE  NetworkIInv'
<1> DEFINE p == profileAt[done]
           old == parmsU[done]
<1>1. IInv'
  BY NextIInv DEF NetworkIInv, ReparametrizeProfile, NextCurve
<1>2. /\ UNCHANGED <<network, profileAt, guideAt, parmsU, parmsV, newU, newV, guidEnds>>
      /\ phase = "reparametrize" /\ done < NProfiles /\ done' = done + 1
      /\ phase' = IF done' = NProfiles + NGuides THEN "build" ELSE "reparametrize"
      /\ CanReparametrize(old, newU)
      /\ profEnds' = [profEnds EXCEPT ![p] = <<newU[0], newU[NGuides - 1]>>]
  BY DEF ReparametrizeProfile, NextCurve, Continue, object, networkParms
<1>3. /\ NProfiles \in Nat /\ NProfiles > 0 /\ NGuides \in Nat /\ NGuides > 1
      /\ done \in Nat
  BY SizeAssumption, NetworkSizeAssumption DEF NetworkIInv, NetworkTypeOK
<1>4. done \in Profile /\ p \in Profile
  BY <1>2, <1>3 DEF Profile, NetworkIInv, AllCurvesPlaced
<1>5. /\ old \in [Guide -> Int] /\ newU \in [Guide -> Int] /\ Guide \in SUBSET Nat
  BY <1>4, Places DEF NetworkIInv, NetworkTypeOK, Matrix
<1>6. Ascends(newU, Guide)
  BY <1>2, <1>5, CanAscend
<1>7. <<newU[0], newU[NGuides - 1]>> \in Ranges
  <2>1. newU[0] < newU[NGuides - 1]
    BY <1>3, <1>5, <1>6, LastIsGreater DEF Guide
  <2>2. newU[0] \in Int /\ newU[NGuides - 1] \in Int
    BY <1>3, <1>5 DEF Guide
  <2> QED
    BY <2>1, <2>2 DEF Ranges
<1>8. /\ meets' = [meets EXCEPT ![p] = [g \in Guide |-> OnNewCurve(meets[p][g], 1, old, newU)]]
      /\ CrossingsOK(meets)
  BY DEF ReparametrizeProfile, NetworkIInv, NetworkTypeOK
<1>9. CrossingsOK(meets')
  <2>1. \A g \in Guide : AreCrossings(OnNewCurve(meets[p][g], 1, old, newU))
    <3> HIDE DEF p, old
    <3> QED
      BY <1>2, <1>4, <1>5, <1>8, OnNewCurveOK DEF CrossingsOK
  <2> HIDE DEF p, old
  <2> QED
    BY <1>4, <1>8, <2>1 DEF CrossingsOK
<1>10. NetworkTypeOK'
  <2>1. profEnds' \in [Profile -> Ranges]
    <3> HIDE DEF p
    <3> QED
      BY <1>2, <1>4, <1>7 DEF NetworkIInv, NetworkTypeOK
  <2> HIDE DEF p, old
  <2> QED
    BY <1>2, <1>3, <1>9, <2>1 DEF NetworkIInv, NetworkTypeOK
<1>11. AllCurvesPlaced' /\ GivenToTheSorter'
  BY <1>2 DEF NetworkIInv, AllCurvesPlaced, GivenToTheSorter
<1>12. NewParametersAscend'
  BY <1>2, <1>3, <1>6 DEF NetworkIInv, NewParametersAscend
\* Of the crossings of a curve only the parameter on it changes.
<1>13. ASSUME NEW q \in Profile, NEW g \in Guide
       PROVE  /\ DOMAIN meets'[q][g] \subseteq DOMAIN meets[q][g]
              /\ q # p => meets'[q][g] = meets[q][g]
              /\ \A x \in DOMAIN meets'[q][g] : meets'[q][g][x][2] = meets[q][g][x][2]
  <2>1. CASE q # p
    <3> HIDE DEF p, old
    <3> QED
      BY <1>8, <2>1 DEF CrossingsOK
  <2>2. CASE q = p
    <3>1. meets'[q][g] = OnNewCurve(meets[q][g], 1, old, newU)
      <4> HIDE DEF p, old
      <4> QED
        BY <1>4, <1>8, <2>2 DEF CrossingsOK
    <3> HIDE DEF p, old
    <3>2. AreCrossings(meets[q][g])
      BY <1>8 DEF CrossingsOK
    <3> QED
      BY <2>2, <3>1, <3>2, OtherParameterKept
  <2> QED
    BY <2>1, <2>2
<1>14. NoNewCrossings'
  BY <1>2, <1>9, <1>13 DEF NetworkIInv, NoNewCrossings
<1>15. ParametersMeetTheCurves'
  <2> SUFFICES ASSUME phase' = "reparametrize", NEW i \in Profile, NEW j \in Guide,
                      MeetOnce(profileAt[i], guideAt[j]),
                      NEW x \in DOMAIN (meets'[profileAt[i]][guideAt[j]])
               PROVE  /\ done' <= i =>
                           IsWithin(parmsU[i][j], meets'[profileAt[i]][guideAt[j]][x][1], SnapTol)
                      /\ done' <= NProfiles + j =>
                           IsWithin(parmsV[i][j], meets'[profileAt[i]][guideAt[j]][x][2], SnapTol)
    BY <1>2 DEF ParametersMeetTheCurves, MeetOnce
  <2>1. profileAt[i] \in Profile /\ guideAt[j] \in Guide
    BY DEF NetworkIInv, AllCurvesPlaced
  <2>2. i \in Int /\ j \in Int
    BY DEF Profile, Guide
  <2>3. /\ x \in DOMAIN meets[profileAt[i]][guideAt[j]]
        /\ done <= i => IsWithin(parmsU[i][j], meets[profileAt[i]][guideAt[j]][x][1], SnapTol)
        /\ done <= NProfiles + j =>
             IsWithin(parmsV[i][j], meets[profileAt[i]][guideAt[j]][x][2], SnapTol)
    BY <1>2, <1>13, <2>1 DEF NetworkIInv, ParametersMeetTheCurves, MeetOnce
  <2>4. ASSUME done' <= i PROVE profileAt[i] # p /\ done <= i
    BY <1>2, <1>3, <1>4, <2>2, <2>4 DEF NetworkIInv, AllCurvesPlaced
  <2>5. done' <= NProfiles + j => done <= NProfiles + j
    BY <1>2, <1>3, <2>2
  <2>6. done' <= i => meets'[profileAt[i]][guideAt[j]] = meets[profileAt[i]][guideAt[j]]
    BY <1>13, <2>1, <2>4
  <2>7. meets'[profileAt[i]][guideAt[j]][x][2] = meets[profileAt[i]][guideAt[j]][x][2]
    BY <1>13, <2>1
  <2> HIDE DEF p, old
  <2> QED
    BY <2>3, <2>4, <2>5, <2>6, <2>7
<1> QED
  BY <1>1, <1>10, <1>11, <1>12, <1>14, <1>15 DEF NetworkIInv

LEMMA ReparametrizeGuideKeeps ==
  ASSUME NetworkIInv, ReparametrizeGuide
  PROVE  NetworkIInv'
<1> DEFINE g == guideAt[done - NProfiles]
           old == GuideColumn
<1>1. IInv'
  BY NextIInv DEF NetworkIInv, ReparametrizeGuide, NextCurve
<1>2. /\ UNCHANGED <<network, profileAt, guideAt, parmsU, parmsV, newU, newV, profEnds>>
      /\ phase = "reparametrize" /\ done >= NProfiles /\ done' = done + 1
      /\ phase' = IF done' = NProfiles + NGuides THEN "build" ELSE "reparametrize"
      /\ CanReparametrize(old, newV)
      /\ guidEnds' = [guidEnds EXCEPT ![g] = <<newV[0], newV[NProfiles - 1]>>]
  BY DEF ReparametrizeGuide, NextCurve, Continue, object, networkParms
<1>3. /\ NProfiles \in Nat /\ NProfiles > 1 /\ NGuides \in Nat /\ NGuides > 0
      /\ done \in Nat /\ done < NProfiles + NGuides
  BY <1>2, SizeAssumption, NetworkSizeAssumption
  DEF NetworkIInv, NetworkTypeOK, NewParametersAscend
<1>4. done - NProfiles \in Guide /\ g \in Guide
  BY <1>2, <1>3 DEF Guide, NetworkIInv, AllCurvesPlaced
<1>5. /\ old \in [Profile -> Int] /\ newV \in [Profile -> Int] /\ Profile \in SUBSET Nat
  BY <1>4, Places DEF GuideColumn, NetworkIInv, NetworkTypeOK, Matrix
<1>6. Ascends(newV, Profile)
  BY <1>2, <1>5, CanAscend
<1>7. <<newV[0], newV[NProfiles - 1]>> \in Ranges
  <2>1. newV[0] < newV[NProfiles - 1]
    BY <1>3, <1>5, <1>6, LastIsGreater DEF Profile
  <2>2. newV[0] \in Int /\ newV[NProfiles - 1] \in Int
    BY <1>3, <1>5 DEF Profile
  <2> QED
    BY <2>1, <2>2 DEF Ranges
<1>8. /\ meets' = [p \in Profile |-> [meets[p] EXCEPT ![g] = OnNewCurve(meets[p][g], 2, old, newV)]]
      /\ CrossingsOK(meets)
  BY DEF ReparametrizeGuide, NetworkIInv, NetworkTypeOK
<1>9. CrossingsOK(meets')
  <2>1. \A p \in Profile : AreCrossings(OnNewCurve(meets[p][g], 2, old, newV))
    <3> HIDE DEF g, old
    <3> QED
      BY <1>2, <1>4, <1>5, <1>8, OnNewCurveOK DEF CrossingsOK
  <2> HIDE DEF g, old
  <2> QED
    BY <1>4, <1>8, <2>1 DEF CrossingsOK
<1>10. NetworkTypeOK'
  <2>1. guidEnds' \in [Guide -> Ranges]
    <3> HIDE DEF g
    <3> QED
      BY <1>2, <1>4, <1>7 DEF NetworkIInv, NetworkTypeOK
  <2> HIDE DEF g, old
  <2> QED
    BY <1>2, <1>3, <1>9, <2>1 DEF NetworkIInv, NetworkTypeOK
<1>11. AllCurvesPlaced' /\ GivenToTheSorter'
  BY <1>2 DEF NetworkIInv, AllCurvesPlaced, GivenToTheSorter
<1>12. NewParametersAscend'
  BY <1>2, <1>3, <1>6 DEF NetworkIInv, NewParametersAscend
<1>13. ASSUME NEW p \in Profile, NEW h \in Guide
       PROVE  /\ DOMAIN meets'[p][h] \subseteq DOMAIN meets[p][h]
              /\ h # g => meets'[p][h] = meets[p][h]
  <2>1. CASE h # g
    <3> HIDE DEF g, old
    <3> QED
      BY <1>8, <2>1 DEF CrossingsOK
  <2>2. CASE h = g
    <3>1. meets'[p][h] = OnNewCurve(meets[p][h], 2, old, newV)
      <4> HIDE DEF g, old
      <4> QED
        BY <1>4, <1>8, <2>2 DEF CrossingsOK
    <3> HIDE DEF g, old
    <3> QED
      BY <2>2, <3>1 DEF OnNewCurve
  <2> QED
    BY <2>1, <2>2
<1>14. NoNewCrossings'
  BY <1>2, <1>9, <1>13 DEF NetworkIInv, NoNewCrossings
<1>15. ParametersMeetTheCurves'
  <2> SUFFICES ASSUME phase' = "reparametrize", NEW i \in Profile, NEW j \in Guide,
                      MeetOnce(profileAt[i], guideAt[j]),
                      NEW x \in DOMAIN (meets'[profileAt[i]][guideAt[j]])
               PROVE  /\ done' <= i =>
                           IsWithin(parmsU[i][j], meets'[profileAt[i]][guideAt[j]][x][1], SnapTol)
                      /\ done' <= NProfiles + j =>
                           IsWithin(parmsV[i][j], meets'[profileAt[i]][guideAt[j]][x][2], SnapTol)
    BY <1>2 DEF ParametersMeetTheCurves, MeetOnce
  <2>1. profileAt[i] \in Profile /\ guideAt[j] \in Guide
    BY DEF NetworkIInv, AllCurvesPlaced
  <2>2. i \in 0 .. NProfiles - 1 /\ j \in Int
    BY DEF Profile, Guide
  <2>3. ~ (done' <= i)
    BY <1>2, <1>3, <2>2
  <2>4. /\ x \in DOMAIN meets[profileAt[i]][guideAt[j]]
        /\ done <= NProfiles + j =>
             IsWithin(parmsV[i][j], meets[profileAt[i]][guideAt[j]][x][2], SnapTol)
    BY <1>2, <1>13, <2>1 DEF NetworkIInv, ParametersMeetTheCurves, MeetOnce
  <2>5. ASSUME done' <= NProfiles + j PROVE done <= NProfiles + j /\ guideAt[j] # g
    <3>1. done <= NProfiles + j /\ j # done - NProfiles
      BY <1>2, <1>3, <2>2, <2>5
    <3> QED
      BY <1>4, <3>1 DEF NetworkIInv, AllCurvesPlaced
  <2>6. done' <= NProfiles + j =>
          meets'[profileAt[i]][guideAt[j]] = meets[profileAt[i]][guideAt[j]]
    BY <1>13, <2>1, <2>5
  <2> HIDE DEF g, old
  <2> QED
    BY <2>3, <2>4, <2>5, <2>6
<1> QED
  BY <1>1, <1>10, <1>11, <1>12, <1>14, <1>15 DEF NetworkIInv

LEMMA BuildKeeps ==
  ASSUME NetworkIInv, BuildSurfaces
  PROVE  NetworkIInv'
<1>1. IInv'
  BY NextIInv DEF NetworkIInv, BuildSurfaces
<1>2. /\ UNCHANGED <<network, meets, profEnds, guidEnds, profileAt, guideAt>>
      /\ UNCHANGED <<parmsU, parmsV, newU, newV, done>> /\ phase' = "idle"
  BY DEF BuildSurfaces, networkCurves, shapes, networkParms
<1>3. NetworkTypeOK' /\ AllCurvesPlaced' /\ NewParametersAscend' /\ NoNewCrossings'
  BY <1>2 DEF NetworkIInv, NetworkTypeOK, AllCurvesPlaced, NewParametersAscend, NoNewCrossings
<1>4. GivenToTheSorter' /\ ParametersMeetTheCurves'
  BY <1>2 DEF GivenToTheSorter, ParametersMeetTheCurves
<1> QED
  BY <1>1, <1>3, <1>4 DEF NetworkIInv

LEMMA NetworkNextIInv == NetworkIInv /\ [NetworkNext]_<<networkVars, vars>> => NetworkIInv'
<1> SUFFICES ASSUME NetworkIInv, [NetworkNext]_<<networkVars, vars>> PROVE NetworkIInv'
  OBVIOUS
<1>1. CASE GetResult \/ GiveUp \/ UNCHANGED <<networkVars, vars>>
  BY <1>1, QuietNetwork DEF GetResult, GiveUp
<1>2. CASE Intersect
  BY <1>2, IntersectKeeps
<1>3. CASE DoNotIntersect
  BY <1>3, DoNotIntersectKeeps
<1>4. CASE Sort
  BY <1>4, SortKeeps
<1>5. CASE TakeSorted
  BY <1>5, TakeSortedKeeps
<1>6. CASE Average
  BY <1>6, AverageKeeps
<1>7. CASE ReparametrizeProfile
  BY <1>7, ReparametrizeProfileKeeps
<1>8. CASE ReparametrizeGuide
  BY <1>8, ReparametrizeGuideKeeps
<1>9. CASE BuildSurfaces
  BY <1>9, BuildKeeps
<1>10. CASE NoStartCorner
  BY <1>10, ThrowKeeps DEF NoStartCorner
<1>11. CASE NoIntersectionAtBeginning
  BY <1>11, ThrowKeeps DEF NoIntersectionAtBeginning
<1>12. CASE CannotReparametrize
  BY <1>12, ThrowKeeps DEF CannotReparametrize
<1>13. CASE CannotBuild
  BY <1>13, ThrowKeeps DEF CannotBuild
<1> QED
  BY <1>1, <1>2, <1>3, <1>4, <1>5, <1>6, <1>7, <1>8, <1>9, <1>10, <1>11, <1>12, <1>13
  DEF NetworkNext

LEMMA NetworkInductive == NetworkSpec => []NetworkIInv
<1> QED
  BY InitNetworkIInv, NetworkNextIInv, PTL DEF NetworkSpec

-----------------------------------------------------------------------------
(***************************************************************************)
(* What holds for every number of profiles and guides and every network.   *)
(***************************************************************************)

\* Whatever the network, and whatever calls threw before, the object takes over
\* all that the sorter has done: its order, its matrices and the curves it has
\* turned under the object's hands still tell where two curves meet.
THEOREM MatricesMeetTheCurves == NetworkSpec => []ParametersMeetTheCurves
<1>1. NetworkIInv => ParametersMeetTheCurves
  BY DEF NetworkIInv
<1> QED
  BY <1>1, NetworkInductive, PTL

\* The sorter that Perform makes anew in each call gets a network it can index,
\* and its matrices tell where the curves meet, whatever cells were left unset.
THEOREM SortersOfNetworksStayTrue ==
  NetworkSpec => [](TypeOK /\ CurvesArePermuted /\ ParametersFollowCurves
                    /\ IndicesTellTheDirection)
<1>1. NetworkIInv => TypeOK /\ CurvesArePermuted /\ ParametersFollowCurves
                     /\ IndicesTellTheDirection
  BY DEF NetworkIInv, IInv
<1> QED
  BY <1>1, NetworkInductive, PTL

LEMMA FreshGridIInvNext == Fresh' => GridIInv'
BY FreshGridIInv, PTL

LEMMA NetworkKeepsGrids ==
  NetworkIInv /\ GridIInv /\ [NetworkNext]_<<networkVars, vars>> => GridIInv'
<1> SUFFICES ASSUME NetworkIInv, GridIInv, [NetworkNext]_<<networkVars, vars>>
             PROVE  GridIInv'
  OBVIOUS
<1>1. CASE Intersect
  BY <1>1, IntersectMakesFresh, FreshGridIInvNext DEF NetworkIInv
<1>2. CASE ~ Intersect
  <2>1. [Next]_vars
    BY <1>2 DEF NetworkNext, GetResult, GiveUp, DoNotIntersect, Sort, NoStartCorner,
                TakeSorted, Average, NoIntersectionAtBeginning, ReparametrizeProfile,
                ReparametrizeGuide, NextCurve, CannotReparametrize, BuildSurfaces, CannotBuild
  <2> QED
    BY <2>1, NextGridIInv DEF NetworkIInv
<1> QED
  BY <1>1, <1>2

\* Of the curves of a grid, wherever they meet in the matrices Perform computes,
\* the sorter does not throw and hands back rows and columns that ascend.
THEOREM GridsOfNetworksAreSorted == NetworkSpec => []GridsAreSorted
<1>1. NetworkInit => Fresh
  BY InitMakesFresh
<1>2. NetworkSpec => []GridIInv
  BY <1>1, NetworkInductive, FreshGridIInv, NetworkKeepsGrids, PTL DEF NetworkSpec
<1> QED
  BY <1>2, GridIInvSuffices, PTL
=============================================================================
