----------------------- MODULE InterfaceCriteriaProofs -----------------------
(***************************************************************************)
(* What checkCriteria answers for lists of any length in any order, and    *)
(* that it is what the comment at the test says once both lists are in the *)
(* order std::set_difference asks for.                                     *)
(***************************************************************************)
EXTENDS InterfaceCriteria, TLAPS

\* The elements of the lists are compared as integers.
Lists == SearchLists \subseteq Seq(Int) /\ InputLists \subseteq Seq(Int)

LEMMA ListTypes ==
  ASSUME Lists, CriteriaTypeOK
  PROVE  /\ Len(search) \in Nat /\ Len(input) \in Nat
         /\ DOMAIN search = 1..Len(search) /\ DOMAIN input = 1..Len(input)
         /\ \A a \in 1..Len(search) : search[a] \in Int
         /\ \A b \in 1..Len(input) : input[b] \in Int
<1>1. search \in Seq(Int) /\ input \in Seq(Int)
  BY DEF Lists, CriteriaTypeOK
<1> QED
  BY <1>1

LEMMA WalkInvInit == Lists /\ Init => WalkInv
<1> SUFFICES ASSUME Lists, Init PROVE WalkInv
  OBVIOUS
<1>1. search \in Seq(Int) /\ input \in Seq(Int)
  BY DEF Lists, Init
<1>2. Len(search) \in Nat /\ Len(input) \in Nat
  BY <1>1
<1> QED
  BY <1>2 DEF Init, WalkInv, CriteriaTypeOK, CountInv, PassedInv, VerdictInv

LEMMA WalkInvNext == Lists /\ WalkInv /\ [Next]_vars => WalkInv'
<1> SUFFICES ASSUME Lists, WalkInv, [Next]_vars PROVE WalkInv'
  OBVIOUS
<1>1. /\ Len(search) \in Nat /\ Len(input) \in Nat
      /\ DOMAIN search = 1..Len(search) /\ DOMAIN input = 1..Len(input)
      /\ \A a \in 1..Len(search) : search[a] \in Int
      /\ \A b \in 1..Len(input) : input[b] \in Int
  BY ListTypes DEF WalkInv
<1>2. /\ i \in 1..Len(search) + 1 /\ j \in 1..Len(input) + 1
      /\ notMatched \in 0..Len(search)
  BY DEF WalkInv, CriteriaTypeOK
<1>3. search' = search /\ input' = input
  BY DEF Next, NotAddressed, KeepRest, KeepSearch, PassInput, PassBoth, Decide, vars
<1> DEFINE shared == Common(search, input) # {}
<1>0. shared' = shared
  BY <1>3 DEF Common
<1>9. notMatched <= i - 1 /\ (notMatched < i - 1 => shared)
  BY DEF WalkInv, CountInv
<1>10. notMatched' <= i' - 1 /\ (notMatched' < i' - 1 => shared') => CountInv'
  BY DEF CountInv
<1> HIDE DEF shared
<1> DEFINE Hidden(a, b) == BehindGreater(search, a) \/ BehindGreater(input, b)
<1>4. ASSUME NEW a \in 1..Len(search), NEW b \in 1..Len(input)
      PROVE  (BehindGreater(search, a) \/ BehindGreater(input, b))'
             = (BehindGreater(search, a) \/ BehindGreater(input, b))
  BY <1>3 DEF BehindGreater
<1>5. CASE KeepRest \/ KeepSearch
  <2>1. /\ i \in 1..Len(search) /\ i' = i + 1 /\ j' = j
        /\ notMatched' = notMatched + 1 /\ verdict = "none" /\ verdict' = "none"
        /\ addressed' = addressed
    BY <1>1, <1>2, <1>5 DEF KeepRest, KeepSearch, Walking
  <2>2. CountInv'
    BY <1>0, <1>2, <1>9, <1>10, <2>1
  <2>3. CriteriaTypeOK' /\ VerdictInv'
    BY <1>1, <1>2, <1>3, <2>1 DEF WalkInv, CriteriaTypeOK, VerdictInv, CountInv
  <2>4. ASSUME notMatched = i - 1,
               NEW a \in 1..Len(search), NEW b \in 1..Len(input),
               search[a] = input[b], a < i' \/ b < j
        PROVE  Hidden(a, b)
    <3>1. CASE a < i \/ b < j
      BY <2>4, <3>1 DEF WalkInv, PassedInv
    <3>2. CASE a = i /\ ~(b < j)
      <4>1. KeepSearch /\ j \in 1..Len(input) /\ search[i] < input[j]
        BY <1>1, <1>2, <1>5, <3>2 DEF KeepRest, KeepSearch, Before
      <4>2. input[b] < input[j] /\ input[j] \in Int /\ input[b] \in Int
        BY <1>1, <2>4, <3>2, <4>1
      <4>3. j \in 1..b-1 /\ input[j] > input[b]
        BY <1>1, <1>2, <3>2, <4>1, <4>2
      <4> QED
        BY <4>3 DEF BehindGreater
    <3> QED
      BY <1>2, <2>1, <2>4, <3>1, <3>2
  <2>5. PassedInv'
    BY <1>2, <1>3, <1>4, <2>1, <2>4 DEF PassedInv
  <2> QED
    BY <2>2, <2>3, <2>5 DEF WalkInv
<1>6. CASE PassInput
  <2>1. /\ i \in 1..Len(search) /\ j \in 1..Len(input)
        /\ i' = i /\ j' = j + 1 /\ notMatched' = notMatched
        /\ verdict = "none" /\ verdict' = "none" /\ addressed' = addressed
        /\ input[j] < search[i]
    BY <1>1, <1>2, <1>6 DEF PassInput, Walking, Before
  <2>2. CountInv'
    BY <1>0, <1>2, <1>9, <1>10, <2>1
  <2>3. CriteriaTypeOK' /\ VerdictInv'
    BY <1>1, <1>2, <1>3, <2>1 DEF WalkInv, CriteriaTypeOK, VerdictInv
  <2>4. ASSUME notMatched = i - 1,
               NEW a \in 1..Len(search), NEW b \in 1..Len(input),
               search[a] = input[b], a < i \/ b < j'
        PROVE  Hidden(a, b)
    <3>1. CASE a < i \/ b < j
      BY <2>4, <3>1 DEF WalkInv, PassedInv
    <3>2. CASE b = j /\ ~(a < i)
      <4>1. search[a] < search[i] /\ search[i] \in Int /\ search[a] \in Int
        BY <1>1, <2>1, <2>4, <3>2
      <4>2. i \in 1..a-1 /\ search[i] > search[a]
        BY <1>1, <1>2, <2>1, <3>2, <4>1
      <4> QED
        BY <4>2 DEF BehindGreater
    <3> QED
      BY <1>2, <2>1, <2>4, <3>1, <3>2
  <2>5. PassedInv'
    BY <1>2, <1>3, <1>4, <2>1, <2>4 DEF PassedInv
  <2> QED
    BY <2>2, <2>3, <2>5 DEF WalkInv
<1>7. CASE PassBoth
  <2>1. /\ i \in 1..Len(search) /\ j \in 1..Len(input)
        /\ i' = i + 1 /\ j' = j + 1 /\ notMatched' = notMatched
        /\ verdict = "none" /\ verdict' = "none" /\ addressed' = addressed
        /\ search[i] = input[j]
    BY <1>1, <1>2, <1>7 DEF PassBoth, Walking, Before
  <2>2. notMatched' < i' - 1
    BY <1>2, <2>1 DEF CountInv, WalkInv
  <2>3. shared
    <3>1. i \in DOMAIN search /\ j \in DOMAIN input
      BY <1>1, <2>1
    <3>2. /\ search[i] \in {search[k] : k \in DOMAIN search}
          /\ search[i] \in {input[k] : k \in DOMAIN input}
      BY <2>1, <3>1
    <3> QED
      BY <3>2 DEF shared, Common
  <2>6. CountInv'
    BY <1>0, <1>2, <1>10, <2>1, <2>2, <2>3
  <2>4. CriteriaTypeOK' /\ VerdictInv'
    BY <1>1, <1>2, <1>3, <2>1 DEF WalkInv, CriteriaTypeOK, VerdictInv
  <2>5. PassedInv'
    BY <1>2, <2>1, <2>2 DEF PassedInv
  <2> QED
    BY <2>4, <2>5, <2>6 DEF WalkInv
<1>8. CASE NotAddressed \/ Decide \/ UNCHANGED vars
  <2>1. i' = i /\ j' = j /\ notMatched' = notMatched /\ addressed' = addressed
    BY <1>8 DEF NotAddressed, Decide, vars
  <2>2. CountInv'
    BY <1>0, <1>2, <1>9, <1>10, <2>1
  <2>3. PassedInv'
    BY <1>3, <1>4, <2>1 DEF PassedInv, WalkInv
  <2>4. CriteriaTypeOK' /\ VerdictInv'
    BY <1>3, <1>8, <2>1 DEF NotAddressed, Decide, vars, WalkInv, CriteriaTypeOK, VerdictInv
  <2> QED
    BY <2>2, <2>3, <2>4 DEF WalkInv
<1> QED
  BY <1>5, <1>6, <1>7, <1>8 DEF Next

\* Where the walk over the two lists is, how many interfaces it counted as
\* missing and what it may have passed over agree at every step.
THEOREM WalkInvariant ==
  ASSUME Lists PROVE Spec => []WalkInv
<1>1. Init => WalkInv
  BY WalkInvInit
<1>2. WalkInv /\ [Next]_vars => WalkInv'
  BY WalkInvNext
<1> QED
  BY <1>1, <1>2, PTL DEF Spec

LEMMA WalkInvDecides == Lists /\ WalkInv => OnlyHiddenMissed
<1> SUFFICES ASSUME Lists, WalkInv PROVE OnlyHiddenMissed
  OBVIOUS
<1>1. /\ Len(search) \in Nat /\ Len(input) \in Nat
      /\ DOMAIN search = 1..Len(search) /\ DOMAIN input = 1..Len(input)
  BY ListTypes DEF WalkInv
<1>2. notMatched \in 0..Len(search) /\ i \in 1..Len(search) + 1
  BY DEF WalkInv, CriteriaTypeOK
<1>3. ASSUME verdict = "accepted" PROVE addressed /\ Common(search, input) # {}
  <2>1. i = Len(search) + 1 /\ notMatched # Len(search)
    BY <1>3 DEF WalkInv, VerdictInv
  <2> DEFINE n == Len(search)
  <2>2. notMatched < i - 1
    <3>1. n \in Nat /\ notMatched \in 0..n /\ i = n + 1 /\ notMatched # n
      BY <1>1, <1>2, <2>1
    <3> HIDE DEF n
    <3> QED
      BY <3>1
  <2>3. addressed
    BY <1>3 DEF WalkInv, VerdictInv
  <2> QED
    BY <2>2, <2>3 DEF WalkInv, CountInv
<1>4. ASSUME verdict = "rejected", addressed,
             NEW a \in DOMAIN search, NEW b \in DOMAIN input, search[a] = input[b]
      PROVE  BehindGreater(search, a) \/ BehindGreater(input, b)
  <2>1. i = Len(search) + 1 /\ notMatched = i - 1
    BY <1>1, <1>4 DEF WalkInv, VerdictInv
  <2>2. a \in 1..Len(search) /\ b \in 1..Len(input) /\ a < i
    BY <1>1, <2>1
  <2> QED
    BY <1>4, <2>1, <2>2 DEF WalkInv, PassedInv
<1> QED
  BY <1>3, <1>4 DEF OnlyHiddenMissed

LEMMA AscendingHidesNothing ==
  ASSUME Lists, CriteriaTypeOK, OnlyHiddenMissed, Ascending(search), Ascending(input)
  PROVE  RejectedIffNoneMatches
<1>1. /\ Len(search) \in Nat /\ Len(input) \in Nat
      /\ DOMAIN search = 1..Len(search) /\ DOMAIN input = 1..Len(input)
      /\ \A a \in 1..Len(search) : search[a] \in Int
      /\ \A b \in 1..Len(input) : input[b] \in Int
  BY ListTypes
<1>2. ASSUME NEW a \in DOMAIN search PROVE ~BehindGreater(search, a)
  <2>1. ASSUME NEW c \in 1..a-1 PROVE search[c] < search[a] /\ search[c] \in Int /\ search[a] \in Int
    <3>1. c \in DOMAIN search /\ c < a
      BY <1>1
    <3> QED
      BY <1>1, <3>1 DEF Ascending
  <2> QED
    BY <2>1 DEF BehindGreater
<1>3. ASSUME NEW b \in DOMAIN input PROVE ~BehindGreater(input, b)
  <2>1. ASSUME NEW c \in 1..b-1 PROVE input[c] < input[b] /\ input[c] \in Int /\ input[b] \in Int
    <3>1. c \in DOMAIN input /\ c < b
      BY <1>1
    <3> QED
      BY <1>1, <3>1 DEF Ascending
  <2> QED
    BY <2>1 DEF BehindGreater
<1> QED
  BY <1>2, <1>3 DEF OnlyHiddenMissed, RejectedIffNoneMatches, Common

\* checkCriteria on lists in any order: what it accepts is searched for, and it
\* misses an interface only behind a greater one.
THEOREM CriteriaCorrect ==
  ASSUME Lists PROVE Spec => []OnlyHiddenMissed
<1>1. WalkInv => OnlyHiddenMissed
  BY WalkInvDecides
<1> QED
  BY <1>1, WalkInvariant, PTL

\* Whenever the two lists at hand are ascending the answer is what the comment
\* at the test says.
THEOREM AscendingExact ==
  ASSUME Lists
  PROVE  Spec => [](Ascending(search) /\ Ascending(input) => RejectedIffNoneMatches)
<1>1. WalkInv => (Ascending(search) /\ Ascending(input) => RejectedIffNoneMatches)
  BY WalkInvDecides, AscendingHidesNothing DEF WalkInv
<1> QED
  BY <1>1, WalkInvariant, PTL
=============================================================================
