--------------------------- MODULE RateLimit_proofs ---------------------------
(***************************************************************************)
(* An address is blocked in time and its window holds what it takes, for   *)
(* any limits and any number of threads.  The failures recorded and those  *)
(* of the threads that have passed the check stay, together, below the     *)
(* threshold and the threads; so do the attempts of the window, below its  *)
(* limit and the threads.  This is when no check is torn; BlockIsKept is    *)
(* proved of torn checks too.                                              *)
(*                                                                         *)
(* The attempts of the window are a sum, a fold over its ticks, and what a *)
(* fold returns takes an induction over finite sets.  It goes by the least *)
(* counterexample: strict inclusion of finite sets is well founded, so of  *)
(* the sets a statement fails for there is a smallest one (LeastSet).      *)
(***************************************************************************)
EXTENDS RateLimit, FiniteSetTheorems, TLAPS
-----------------------------------------------------------------------------
(* The failures *)

\* The threads that the check let pass with a wrong code.
Wrong == {w \in Workers : worker[w] = "wrong"}

\* Failures are at the threshold exactly while there is a block, or one that has run
\* out and is not lifted yet.
CountMeansBlock == failures >= BLOCK_THRESHOLD <=> block # NotBlocked

\* No check is torn unless it may be, and one that is torn after it lifted a block has
\* a code to go on with.
TornMaybe ==
  /\ ~mayTear => \A w \in Workers : torn[w].at = "no"
  /\ \A w \in Workers : torn[w].at = "lift" => worker[w] \in Codes

IInv ==
  /\ TypeOK
  /\ TornMaybe
  /\ BlockIsKept
  /\ ~mayTear => CountMeansBlock
  /\ Workers # {} /\ ~mayTear =>
       failures + Cardinality(Wrong) <= BLOCK_THRESHOLD + Cardinality(Workers) - 1

\* The threads are a finite set, and so are those with a wrong code.
LEMMA WrongIsFinite ==
  /\ IsFiniteSet(Wrong) /\ Cardinality(Wrong) \in Nat
  /\ Cardinality(Workers) \in Nat
  /\ Cardinality(Wrong) <= Cardinality(Workers)
PROOF
  <1>1. Wrong \subseteq Workers BY DEF Wrong
  <1> QED BY <1>1, WorkersAssumption, FS_Subset, FS_CardinalityType

\* A limit is a positive number.
LEMMA Limits ==
  /\ RATE_LIMIT_WINDOW \in Nat \ {0} /\ BLOCK_THRESHOLD \in Nat \ {0}
  /\ BLOCK_DURATION \in Nat \ {0}
PROOF BY LimitsAssumption

\* The invariant holds initially.
LEMMA InitIInv == Init => IInv
PROOF
  <1> SUFFICES ASSUME Init PROVE IInv OBVIOUS
  <1>1. TypeOK BY Limits DEF Init, TypeOK, NoAttempts, NotBlocked, Whole
  <1>2. CountMeansBlock /\ BlockIsKept BY Limits DEF Init, CountMeansBlock, BlockIsKept
  <1>3. Wrong = {} BY DEF Init, Wrong
  <1>4. Cardinality({}) = 0 BY FS_EmptySet
  <1>5. Workers # {} => Cardinality(Workers) # 0 BY WorkersAssumption, FS_EmptySet
  <1>6. TornMaybe BY DEF Init, TornMaybe, Whole
  <1> QED BY <1>1, <1>2, <1>3, <1>4, <1>5, <1>6, WrongIsFinite, Limits DEF IInv, Init

\* What a list of attempts is.
Lists == [1 .. RATE_LIMIT_WINDOW -> Nat]

\* The window of a check and the ageing of a list keep the types.
LEMMA LookTyped ==
  ASSUME TypeOK, NEW w \in Workers, NEW code \in Codes, Look(w, code)
  PROVE  /\ worker' \in [Workers -> {"idle", "refused"} \cup Codes]
         /\ torn' \in [Workers -> [at : {"no", "lift", "store"}, copy : Lists]]
         /\ torn'[w].at \in {"no", "store"} /\ (~mayTear => torn'[w].at = "no")
         /\ worker'[w] = (IF FullWindow THEN "refused" ELSE code)
         /\ \A v \in Workers \ {w} : worker'[v] = worker[v] /\ torn'[v] = torn[v]
PROOF
  <1>1. NoAttempts \in Lists /\ recent \in Lists BY DEF NoAttempts, Lists, TypeOK
  <1>2. PICK at \in {"no"} \cup IF mayTear THEN {"store"} ELSE {} :
          torn' = [torn EXCEPT ![w] = [at |-> at, copy |-> IF at = "store" THEN recent ELSE NoAttempts]]
    BY DEF Look
  <1>3. torn \in [Workers -> [at : {"no", "lift", "store"}, copy : Lists]] BY DEF TypeOK, Lists
  <1>4. worker' = [worker EXCEPT ![w] = IF FullWindow THEN "refused" ELSE code] BY DEF Look
  <1> QED BY <1>1, <1>2, <1>3, <1>4 DEF TypeOK

\* A list stays one as it ages.
LEMMA AgedTyped == ASSUME NEW list \in Lists PROVE Aged(list) \in Lists
PROOF BY Limits DEF Aged, Lists

\* The three ways a check goes.
LEMMA Checks ==
  ASSUME TypeOK, NEW w \in Workers, NEW code \in Codes, Check(w, code)
  PROVE  /\ worker[w] = "idle" /\ recent' = recent
         /\ \/ /\ block > 0 /\ UNCHANGED << failures, block, torn >>
               /\ worker' = [worker EXCEPT ![w] = "refused"]
            \/ /\ block \in {0, NotBlocked} /\ block' = NotBlocked /\ Look(w, code)
               /\ failures' = (IF block = 0 THEN 0 ELSE failures)
            \/ /\ block = 0 /\ mayTear /\ torn'[w].at = "lift" /\ worker'[w] = code
               /\ \A v \in Workers \ {w} : torn'[v] = torn[v] /\ worker'[v] = worker[v]
PROOF
  <1>1. /\ worker \in [Workers -> {"idle", "refused"} \cup Codes]
        /\ torn \in [Workers -> [at : {"no", "lift", "store"}, copy : Lists]]
    BY DEF TypeOK, Lists
  <1> QED BY <1>1 DEF Check, AfterRefusal, AfterLift

\* Whether checks may be torn does not change.
LEMMA MayTearStays == [Next]_vars => mayTear' = mayTear
PROOF BY DEF Next, vars, Check, Lift, Store, Record, Refuse, Tick, Restart

\* Every step keeps the types.
LEMMA NextTypeOK == TypeOK /\ TornMaybe /\ [Next]_vars => TypeOK'
PROOF
  <1> SUFFICES ASSUME TypeOK, TornMaybe, [Next]_vars PROVE TypeOK' OBVIOUS
  <1>m. mayTear' = mayTear BY MayTearStays
  <1> USE <1>m, Limits DEF TypeOK, NotBlocked
  <1>1. ASSUME NEW w \in Workers, NEW code \in Codes, Check(w, code) PROVE TypeOK'
    <2>1. CASE block > 0
      <3>1. /\ UNCHANGED << recent, failures, block, torn >>
            /\ worker' = [worker EXCEPT ![w] = "refused"]
        BY <1>1, <2>1, Checks
      <3> QED BY <3>1
    <2>2. CASE Look(w, code)
      <3>1. failures' \in Nat /\ (block' = NotBlocked \/ block > 0)
        BY <1>1 DEF Check, AfterLift
      <3>2. CASE block > 0 BY <2>1, <3>2
      <3>3. CASE ~(block > 0)
        BY <1>1, <2>2, <3>1, <3>3, LookTyped DEF Check, Lists
      <3> QED BY <3>2, <3>3
    <2>3. CASE UNCHANGED failures /\ block' = NotBlocked
               /\ worker' = [worker EXCEPT ![w] = code] /\ torn' = [torn EXCEPT ![w].at = "lift"]
      BY <1>1, <2>3 DEF Check
    <2> QED BY <1>1, <2>1, <2>2, <2>3 DEF Check
  <1>2. ASSUME NEW w \in Workers, Record(w) PROVE TypeOK'
    <2>1. Failed \in [1 .. RATE_LIMIT_WINDOW -> Nat] BY DEF Failed
    <2>2. Whole \in [at : {"no", "lift", "store"}, copy : Lists] BY DEF Whole, NoAttempts, Lists
    <2>3. torn' \in [Workers -> [at : {"no", "lift", "store"}, copy : Lists]]
      BY <1>2, <2>2 DEF Record, Lists
    <2>4. recent' \in Lists
      <3>1. NoAttempts \in Lists /\ Failed \in Lists BY <2>1 DEF NoAttempts, Lists
      <3>2. recent' \in {NoAttempts, Failed} BY <1>2 DEF Record
      <3> QED BY <3>1, <3>2
    <2>7. failures' \in Nat BY <1>2 DEF Record
    <2>5. block' \in {NotBlocked} \cup 0 .. BLOCK_DURATION BY <1>2 DEF Record
    <2>6. worker' \in [Workers -> {"idle", "refused"} \cup Codes] BY <1>2 DEF Record
    <2> QED BY <2>3, <2>4, <2>5, <2>6, <2>7 DEF Lists
  <1>3. ASSUME NEW w \in Workers, Refuse(w) PROVE TypeOK' BY <1>3 DEF Refuse
  <1>4. CASE Tick
    <2>1. recent' \in Lists BY <1>4, AgedTyped DEF Tick, Lists
    <2>2. \A w \in Workers : Aged(torn[w].copy) \in Lists BY AgedTyped DEF Lists
    <2>3. torn' \in [Workers -> [at : {"no", "lift", "store"}, copy : Lists]]
      BY <1>4, <2>2 DEF Tick
    <2>4. block' \in {NotBlocked} \cup 0 .. BLOCK_DURATION BY <1>4 DEF Tick
    <2>5. failures' = failures /\ worker' = worker BY <1>4 DEF Tick
    <2> QED BY <2>1, <2>3, <2>4, <2>5 DEF Lists
  <1>5. CASE Restart BY <1>5 DEF Restart, NoAttempts, Whole
  <1>6. CASE UNCHANGED vars BY <1>6 DEF vars
  <1>7. ASSUME NEW w \in Workers, Lift(w) PROVE TypeOK'
    <2>1. worker[w] \in Codes BY <1>7 DEF Lift, TornMaybe
    <2> QED BY <1>7, <2>1, LookTyped DEF Lift, AfterLift, Lists
  <1>8. ASSUME NEW w \in Workers, Store(w) PROVE TypeOK'
    BY <1>8 DEF Store, Whole, NoAttempts
  <1> QED BY <1>1, <1>2, <1>3, <1>4, <1>5, <1>6, <1>7, <1>8 DEF Next

\* Every step keeps checks whole unless they may be torn.
LEMMA NextTornMaybe == TypeOK /\ TornMaybe /\ [Next]_vars => TornMaybe'
PROOF
  <1> SUFFICES ASSUME TypeOK, TornMaybe, [Next]_vars PROVE TornMaybe' OBVIOUS
  <1>m. mayTear' = mayTear BY MayTearStays
  <1>t. /\ worker \in [Workers -> {"idle", "refused"} \cup Codes]
        /\ torn \in [Workers -> [at : {"no", "lift", "store"}, copy : Lists]]
    BY DEF TypeOK, Lists
  <1> USE <1>m DEF TornMaybe
  <1>1. ASSUME NEW w \in Workers, NEW code \in Codes, Check(w, code) PROVE TornMaybe'
    <2>1. CASE block > 0
      <3>1. UNCHANGED torn /\ worker[w] \notin Codes /\ \A v \in Workers \ {w} : worker'[v] = worker[v]
        BY <1>1, <1>t, <2>1, Checks, Limits DEF Codes, NotBlocked
      <3> QED BY <3>1
    <2>2. CASE Look(w, code) BY <1>t, <2>2, LookTyped
    <2>3. CASE mayTear /\ torn'[w].at = "lift" /\ worker'[w] = code
               /\ \A v \in Workers \ {w} : torn'[v] = torn[v] /\ worker'[v] = worker[v]
      BY <2>3
    <2> QED BY <1>1, <2>1, <2>2, <2>3, Checks
  <1>2. ASSUME NEW w \in Workers, Record(w) PROVE TornMaybe'
    <2>1. /\ \A v \in Workers : torn'[v].at \in {"no", torn[v].at}
          /\ torn[w].at = "no" /\ \A v \in Workers \ {w} : worker'[v] = worker[v]
      BY <1>2, <1>t DEF Record, Whole
    <2>2. torn'[w].at = "no" BY <2>1
    <2> QED BY <2>1, <2>2
  <1>3. ASSUME NEW w \in Workers, Refuse(w) PROVE TornMaybe' BY <1>3, <1>t DEF Refuse
  <1>4. CASE Tick
    <2>1. \A w \in Workers : torn'[w].at = torn[w].at /\ worker' = worker BY <1>4, <1>t DEF Tick
    <2> QED BY <2>1
  <1>5. CASE Restart BY <1>5 DEF Restart, Whole
  <1>6. CASE UNCHANGED vars BY <1>6 DEF vars
  <1>7. ASSUME NEW w \in Workers, Lift(w) PROVE TornMaybe'
    <2>1. worker[w] \in Codes /\ Look(w, worker[w]) BY <1>7 DEF Lift
    <2> QED BY <1>t, <2>1, LookTyped
  <1>8. ASSUME NEW w \in Workers, Store(w) PROVE TornMaybe'
    <2>1. /\ \A v \in Workers : torn'[v].at \in {"no", torn[v].at}
          /\ worker' = worker
      BY <1>8, <1>t DEF Store, Whole
    <2> QED BY <2>1
  <1> QED BY <1>1, <1>2, <1>3, <1>4, <1>5, <1>6, <1>7, <1>8 DEF Next

\* Every step leaves a block with the failures, or a check that is lifting one.
LEMMA NextBlockIsKept == TypeOK /\ TornMaybe /\ BlockIsKept /\ [Next]_vars => BlockIsKept'
PROOF
  <1> SUFFICES ASSUME TypeOK, TornMaybe, BlockIsKept, [Next]_vars PROVE BlockIsKept' OBVIOUS
  <1>t. /\ worker \in [Workers -> {"idle", "refused"} \cup Codes]
        /\ torn \in [Workers -> [at : {"no", "lift", "store"}, copy : Lists]]
        /\ failures \in Nat /\ block \in {NotBlocked} \cup 0 .. BLOCK_DURATION
    BY DEF TypeOK, Lists
  <1> USE Limits DEF NotBlocked
  \* A step that leaves the failures, the block and the checks that are lifting one.
  <1>u. ASSUME failures' = failures, block' = block,
               \A v \in Workers : torn[v].at = "lift" => torn'[v].at = "lift"
        PROVE  BlockIsKept'
    BY <1>u DEF BlockIsKept
  <1>z. failures' = 0 => BlockIsKept' BY DEF BlockIsKept
  <1>1. ASSUME NEW w \in Workers, NEW code \in Codes, Check(w, code) PROVE BlockIsKept'
    <2>1. CASE UNCHANGED << failures, block, torn >> BY <2>1, <1>u
    <2>2. CASE /\ block' = NotBlocked /\ block \in {0, NotBlocked} /\ Look(w, code)
               /\ failures' = (IF block = 0 THEN 0 ELSE failures)
      <3>1. CASE block = 0 BY <2>2, <3>1, <1>z
      <3>2. CASE block # 0
        <4>1. torn[w].at # "lift" BY <1>1, Checks DEF TornMaybe, Codes
        <4>2. \A v \in Workers \ {w} : torn'[v] = torn[v] BY <2>2, LookTyped
        <4> QED BY <2>2, <3>2, <4>1, <4>2, <1>u
      <3> QED BY <3>1, <3>2
    <2>3. CASE torn'[w].at = "lift" BY <2>3 DEF BlockIsKept
    <2> QED BY <1>1, <2>1, <2>2, <2>3, Checks
  <1>2. ASSUME NEW w \in Workers, Record(w) PROVE BlockIsKept'
    <2>1. CASE worker[w] = "right" BY <1>2, <2>1, <1>z DEF Record
    <2>2. CASE worker[w] # "right"
      <3>1. /\ torn' = torn /\ failures' = failures + 1
            /\ block' = IF failures + 1 >= BLOCK_THRESHOLD THEN BLOCK_DURATION ELSE block
        BY <1>2, <2>2 DEF Record, TooMany
      <3> QED BY <3>1, <1>t DEF BlockIsKept
    <2> QED BY <2>1, <2>2
  <1>3. ASSUME NEW w \in Workers, Refuse(w) PROVE BlockIsKept' BY <1>3, <1>u DEF Refuse
  <1>4. CASE Tick
    <2>1. /\ \A v \in Workers : torn'[v].at = torn[v].at
          /\ failures' = failures
          /\ block' = IF block > 0 THEN block - 1 ELSE block
      BY <1>4, <1>t DEF Tick
    <2> QED BY <2>1, <1>t DEF BlockIsKept
  <1>5. CASE Restart BY <1>5, <1>z DEF Restart
  <1>6. CASE UNCHANGED vars BY <1>6, <1>u DEF vars
  <1>7. ASSUME NEW w \in Workers, Lift(w) PROVE BlockIsKept' BY <1>7, <1>z DEF Lift, AfterLift
  <1>8. ASSUME NEW w \in Workers, Store(w) PROVE BlockIsKept' BY <1>8, <1>t, <1>u DEF Store
  <1> QED BY <1>1, <1>2, <1>3, <1>4, <1>5, <1>6, <1>7, <1>8 DEF Next

\* Without a torn check, every step keeps the block and the failures in step.
LEMMA NextCountMeansBlock ==
  TypeOK /\ TornMaybe /\ ~mayTear /\ CountMeansBlock /\ [Next]_vars => CountMeansBlock'
PROOF
  <1> SUFFICES ASSUME TypeOK, TornMaybe, ~mayTear, CountMeansBlock, [Next]_vars
               PROVE  CountMeansBlock'
    OBVIOUS
  <1> USE Limits DEF TypeOK, NotBlocked, CountMeansBlock
  <1>1. ASSUME NEW w \in Workers, NEW code \in Codes, Check(w, code) PROVE CountMeansBlock'
    <2>1. \/ UNCHANGED << failures, block >>
          \/ /\ block \in {0, NotBlocked} /\ block' = NotBlocked
             /\ failures' = (IF block = 0 THEN 0 ELSE failures)
      BY <1>1, Checks
    <2> QED BY <2>1
  <1>2. ASSUME NEW w \in Workers, Record(w) PROVE CountMeansBlock'
    BY <1>2 DEF Record, TooMany
  <1>3. ASSUME NEW w \in Workers, Refuse(w) PROVE CountMeansBlock' BY <1>3 DEF Refuse
  <1>4. CASE Tick BY <1>4 DEF Tick
  <1>5. CASE Restart BY <1>5 DEF Restart
  <1>6. CASE UNCHANGED vars BY <1>6 DEF vars
  <1>7. ASSUME NEW w \in Workers, Lift(w) \/ Store(w) PROVE FALSE
    BY <1>7 DEF Lift, Store, TornMaybe
  <1> QED BY <1>1, <1>2, <1>3, <1>4, <1>5, <1>6, <1>7 DEF Next

\* Every step keeps the invariant: a wrong code that passes the check found the
\* failures below the threshold, and its record moves it from one term to the other.
LEMMA NextIInv == IInv /\ [Next]_vars => IInv'
PROOF
  <1> DEFINE Bound == failures + Cardinality(Wrong) <= BLOCK_THRESHOLD + Cardinality(Workers) - 1
  <1> SUFFICES ASSUME IInv, [Next]_vars, Workers # {}, ~mayTear PROVE Bound'
    BY NextTypeOK, NextTornMaybe, NextBlockIsKept, NextCountMeansBlock, MayTearStays DEF IInv
  <1>t. TypeOK /\ TypeOK' /\ CountMeansBlock /\ Bound BY NextTypeOK DEF IInv
  <1>f. failures' < BLOCK_THRESHOLD => Bound'
    <2>1. Wrong' \subseteq Workers BY DEF Wrong
    <2>2. Cardinality(Wrong') \in Nat /\ Cardinality(Wrong') <= Cardinality(Workers)
      BY <2>1, WorkersAssumption, FS_Subset, FS_CardinalityType
    <2> QED BY <1>t, <2>2, WrongIsFinite, Limits DEF TypeOK
  <1>u. failures' = failures /\ Wrong' = Wrong => Bound' BY <1>t
  <1>1. ASSUME NEW w \in Workers, NEW code \in Codes, Check(w, code) PROVE Bound'
    <2>1. CASE block > 0
      <3>1. failures' = failures /\ worker[w] = "idle" /\ worker' = [worker EXCEPT ![w] = "refused"]
        BY <1>1, <2>1, <1>t, Checks, Limits DEF NotBlocked
      <3>2. Wrong' = Wrong BY <3>1, <1>t DEF Wrong, TypeOK
      <3> QED BY <3>1, <3>2, <1>u
    <2>2. CASE ~(block > 0)
      <3>1. block = 0 \/ block = NotBlocked BY <2>2, <1>t, Limits DEF TypeOK, NotBlocked
      <3>2. failures' = (IF block = 0 THEN 0 ELSE failures) BY <1>1, <1>t, <2>2, Checks
      <3>3. failures' < BLOCK_THRESHOLD
        BY <3>1, <3>2, <1>t, Limits DEF CountMeansBlock, TypeOK, NotBlocked
      <3> QED BY <3>3, <1>f
    <2> QED BY <2>1, <2>2
  <1>2. ASSUME NEW w \in Workers, Record(w) PROVE Bound'
    <2>1. CASE worker[w] = "right" BY <1>2, <2>1, <1>f, Limits DEF Record
    <2>2. CASE worker[w] # "right"
      <3>1. failures' = failures + 1 /\ w \in Wrong /\ Wrong' = Wrong \ {w}
        BY <1>2, <2>2, <1>t DEF Record, Wrong, Codes, TypeOK
      <3>2. Cardinality(Wrong') = Cardinality(Wrong) - 1
        BY <3>1, WrongIsFinite, FS_RemoveElement
      <3> QED BY <3>1, <3>2, <1>t, WrongIsFinite, Limits DEF TypeOK
    <2> QED BY <2>1, <2>2
  <1>3. ASSUME NEW w \in Workers, Refuse(w) PROVE Bound'
    <2>1. Wrong' = Wrong BY <1>3, <1>t DEF Refuse, Wrong, TypeOK
    <2> QED BY <2>1, <1>3, <1>u DEF Refuse
  <1>4. CASE Tick
    <2>1. Wrong' = Wrong BY <1>4 DEF Tick, Wrong
    <2> QED BY <2>1, <1>4, <1>u DEF Tick
  <1>5. CASE Restart BY <1>5, <1>f, Limits DEF Restart
  <1>6. CASE UNCHANGED vars
    <2>1. Wrong' = Wrong BY <1>6 DEF vars, Wrong
    <2> QED BY <2>1, <1>6, <1>u DEF vars
  <1>7. ASSUME NEW w \in Workers, Lift(w) \/ Store(w) PROVE FALSE
    BY <1>7 DEF Lift, Store, IInv, TornMaybe
  <1> QED BY <1>1, <1>2, <1>3, <1>4, <1>5, <1>6, <1>7 DEF Next

\* The invariant holds of every behaviour.
LEMMA SpecIInv == Spec => []IInv
PROOF BY InitIInv, NextIInv, PTL DEF Spec

\* The types hold, and with them the block lasts no longer than it is set for
\* (rate_limit.py).
THEOREM TypeCorrect == Spec => []TypeOK
PROOF
  <1>1. IInv => TypeOK BY DEF IInv
  <1> QED BY <1>1, SpecIInv, PTL

\* For any limits and any number of threads, an address has had its failures, and one
\* for each other thread, when it is blocked (record_attempt after check_rate_limit), when
\* no check is torn.
THEOREM FailuresStayBounded == Spec => []FailuresBounded
PROOF
  <1>1. IInv => FailuresBounded
    BY WrongIsFinite, Limits DEF IInv, FailuresBounded, TypeOK
  <1> QED BY <1>1, SpecIInv, PTL

\* However the statements of the threads interleave, no address is left with its
\* failures and no block (record_attempt in one thread, check_rate_limit in another).
THEOREM BlocksAreKept == Spec => []BlockIsKept
PROOF
  <1>1. IInv => BlockIsKept BY DEF IInv
  <1> QED BY <1>1, SpecIInv, PTL
-----------------------------------------------------------------------------
(* Sums *)

\* The element that a fold takes next.
Pick(s) == CHOOSE x \in s : TRUE

\* h gives the sum of g over each subset of S.
IsSum(g, S, h) ==
  h = [s \in SUBSET S |-> IF s = {} THEN 0 ELSE g[Pick(s)] + h[s \ {Pick(s)}]]

\* Among sets of elements of a finite set there is a smallest one: induction.
LEMMA LeastSet ==
  ASSUME NEW S, IsFiniteSet(S), NEW T \in SUBSET (SUBSET S), T # {}
  PROVE  \E s \in T : \A r \in T : ~(r \subseteq s /\ r # s)
PROOF
  <1>1. FiniteSubsetsOf(S) = SUBSET S BY FS_FiniteSubsetsOfFinite
  <1>2. IsWellFoundedOn(StrictSubsetOrdering(S), SUBSET S)
    BY <1>1, FS_StrictSubsetOrderingWellFounded
  <1>3. PICK s \in T : \A r \in T : << r, s >> \notin StrictSubsetOrdering(S)
    BY <1>2, WFMin
  <1>4. \A r \in T : r \in SUBSET S /\ s \in SUBSET S OBVIOUS
  <1> QED BY <1>3, <1>4 DEF StrictSubsetOrdering

\* An element is taken from a set that has one.
LEMMA PickOne == ASSUME NEW s, s # {} PROVE Pick(s) \in s
PROOF BY DEF Pick

\* There is one such h.
LEMMA SumIsOne ==
  ASSUME NEW g, NEW S, IsFiniteSet(S), NEW h, NEW k, IsSum(g, S, h), IsSum(g, S, k)
  PROVE  h = k
PROOF
  <1> DEFINE T == {s \in SUBSET S : h[s] # k[s]}
  <1>1. CASE T = {}
    <2>1. \A s \in SUBSET S : h[s] = k[s] BY <1>1
    <2>2. h = [s \in SUBSET S |-> h[s]] /\ k = [s \in SUBSET S |-> k[s]] BY Zenon DEF IsSum
    <2> QED BY <2>1, <2>2
  <1>2. CASE T # {}
    <2>t. T \in SUBSET (SUBSET S) OBVIOUS
    <2> HIDE DEF T
    <2>1. PICK s \in T : \A r \in T : ~(r \subseteq s /\ r # s) BY <1>2, <2>t, LeastSet
    <2> USE DEF T
    <2>2. s \in SUBSET S /\ h[s] # k[s] BY <2>1
    <2>3. s # {} BY <2>2 DEF IsSum
    <2>4. s \ {Pick(s)} \in SUBSET S /\ s \ {Pick(s)} # s BY <2>2, <2>3, PickOne
    <2>5. h[s \ {Pick(s)}] = k[s \ {Pick(s)}] BY <2>1, <2>4
    <2>6. h[s] = g[Pick(s)] + h[s \ {Pick(s)}] BY Zenon, <2>2, <2>3 DEF IsSum
    <2>7. k[s] = g[Pick(s)] + k[s \ {Pick(s)}] BY Zenon, <2>2, <2>3 DEF IsSum
    <2> QED BY <2>2, <2>5, <2>6, <2>7
  <1> QED BY <1>1, <1>2

\* What sums up the subsets of S does so for the subsets of a subset.
LEMMA SumOfPart ==
  ASSUME NEW g, NEW S, NEW h, IsSum(g, S, h), NEW s \in SUBSET S
  PROVE  IsSum(g, s, [r \in SUBSET s |-> h[r]])
PROOF
  <1> DEFINE k == [r \in SUBSET s |-> h[r]]
  <1>1. ASSUME NEW r \in SUBSET s
        PROVE  k[r] = IF r = {} THEN 0 ELSE g[Pick(r)] + k[r \ {Pick(r)}]
    <2>1. h[r] = IF r = {} THEN 0 ELSE g[Pick(r)] + h[r \ {Pick(r)}] BY Zenon DEF IsSum
    <2>2. r \ {Pick(r)} \in SUBSET s OBVIOUS
    <2>3. k[r] = h[r] /\ k[r \ {Pick(r)}] = h[r \ {Pick(r)}] BY <2>2
    <2> QED BY <2>1, <2>3
  <1>2. k = [r \in SUBSET s |-> k[r]] OBVIOUS
  <1> HIDE DEF k
  <1>3. k = [r \in SUBSET s |-> IF r = {} THEN 0 ELSE g[Pick(r)] + k[r \ {Pick(r)}]]
    BY <1>1, <1>2
  <1>4. IsSum(g, s, k) BY Zenon, <1>3 DEF IsSum
  <1> QED BY <1>4 DEF k

\* There is such an h for every finite set.
LEMMA SumExists ==
  ASSUME NEW g, NEW S, IsFiniteSet(S)
  PROVE  \E h : IsSum(g, S, h)
PROOF
  <1> DEFINE T == {s \in SUBSET S : ~ \E h : IsSum(g, s, h)}
             H(s) == CHOOSE h : IsSum(g, s, h)
  <1>1. T \in SUBSET (SUBSET S) OBVIOUS
  <1>2. CASE T = {}
    <2>1. S \in SUBSET S /\ S \notin T BY <1>2
    <2> QED BY <2>1
  <1>3. CASE T # {}
    <2>1. PICK s \in T : \A r \in T : ~(r \subseteq s /\ r # s)
      <3> HIDE DEF T
      <3> QED BY <1>1, <1>3, LeastSet
    <2>2. s \in SUBSET S /\ ~ \E h : IsSum(g, s, h) BY <2>1
    <2> DEFINE k == [r \in SUBSET s |-> IF r = {} THEN 0
                                        ELSE g[Pick(r)] + H(r \ {Pick(r)})[r \ {Pick(r)}]]
    <2>3. ASSUME NEW q \in SUBSET s, q # s PROVE IsSum(g, q, H(q)) /\ IsFiniteSet(q)
      <3>1. q \in SUBSET S /\ q \notin T BY <2>1, <2>2, <2>3
      <3>2. \E h : IsSum(g, q, h) BY <3>1
      <3>3. IsFiniteSet(q) BY <3>1, FS_Subset
      <3> HIDE DEF T
      <3> QED BY Zenon, <3>2, <3>3
    <2> HIDE DEF T, H
    <2>4. ASSUME NEW q \in SUBSET s, q # s PROVE k[q] = H(q)[q]
      <3>1. IsSum(g, q, H(q)) /\ q \in SUBSET q BY <2>3, <2>4
      <3>2. CASE q = {}
        <4>1. H(q)[q] = 0 BY <3>1, <3>2 DEF IsSum
        <4> QED BY <3>2, <4>1
      <3>3. CASE q # {}
        <4> DEFINE p == q \ {Pick(q)}
        <4>1. p \in SUBSET q /\ p \in SUBSET s /\ p # s BY <3>3, <2>4
        <4>2. H(q)[q] = g[Pick(q)] + H(q)[p] BY Zenon, <3>1, <3>3 DEF IsSum
        <4>3. k[q] = g[Pick(q)] + H(p)[p] BY <3>3
        <4>4. H(q)[p] = H(p)[p]
          <5> DEFINE m == [r \in SUBSET p |-> H(q)[r]]
          <5>1. IsSum(g, p, m) BY <3>1, <4>1, SumOfPart
          <5>2. IsSum(g, p, H(p)) /\ IsFiniteSet(p) BY <2>3, <4>1
          <5> HIDE DEF m, p
          <5>3. m = H(p) BY <5>1, <5>2, SumIsOne
          <5> USE DEF m
          <5>4. m[p] = H(q)[p] OBVIOUS
          <5> QED BY <5>3, <5>4
        <4> QED BY <4>2, <4>3, <4>4
      <3> QED BY <3>2, <3>3
    <2>5. ASSUME NEW r \in SUBSET s
          PROVE  k[r] = IF r = {} THEN 0 ELSE g[Pick(r)] + k[r \ {Pick(r)}]
      <3>1. CASE r = {} BY <3>1
      <3>2. CASE r # {}
        <4> DEFINE q == r \ {Pick(r)}
        <4>1. q \in SUBSET s /\ q # s BY <3>2, PickOne
        <4>2. k[r] = g[Pick(r)] + H(q)[q] BY <3>2
        <4>3. k[q] = H(q)[q] BY <2>4, <4>1
        <4> HIDE DEF k
        <4> QED BY <3>2, <4>2, <4>3
      <3> QED BY <3>1, <3>2
    <2>6. k = [r \in SUBSET s |-> k[r]] OBVIOUS
    <2> HIDE DEF k
    <2>7. k = [r \in SUBSET s |-> IF r = {} THEN 0 ELSE g[Pick(r)] + k[r \ {Pick(r)}]]
      BY <2>5, <2>6
    <2>8. IsSum(g, s, k) BY Zenon, <2>7 DEF IsSum
    <2> QED BY <2>2, <2>8
  <1> QED BY <1>2, <1>3

\* The sum over a set is that of its folds.
LEMMA SumIsSum ==
  ASSUME NEW g, NEW S, IsFiniteSet(S), NEW h, IsSum(g, S, h)
  PROVE  SumFunctionOnSet(g, S) = h[S]
PROOF
  <1> DEFINE k == CHOOSE f : IsSum(g, S, f)
  <1>1. IsSum(g, S, k) BY SumExists
  <1>2. SumFunctionOnSet(g, S) = k[S]
    BY Zenon DEF SumFunctionOnSet, FoldFunctionOnSet, MapThenFoldSet, IsSum, Pick
  <1> HIDE DEF k
  <1>3. k = h BY <1>1, SumIsOne
  <1> QED BY <1>2, <1>3

\* Nothing sums up to nothing, and else an element is added to the sum of the others.
LEMMA SumSteps ==
  ASSUME NEW g, NEW S, IsFiniteSet(S)
  PROVE  SumFunctionOnSet(g, S)
           = IF S = {} THEN 0 ELSE g[Pick(S)] + SumFunctionOnSet(g, S \ {Pick(S)})
PROOF
  <1> DEFINE s == S \ {Pick(S)}
  <1>1. PICK h : IsSum(g, S, h) BY SumExists
  <1>2. SumFunctionOnSet(g, S) = h[S] BY <1>1, SumIsSum
  <1>3. s \in SUBSET S /\ S \in SUBSET S /\ IsFiniteSet(s) BY FS_Subset
  <1>4. h[S] = IF S = {} THEN 0 ELSE g[Pick(S)] + h[s] BY Zenon, <1>1, <1>3 DEF IsSum
  <1>5. SumFunctionOnSet(g, s) = h[s]
    <2> DEFINE k == [r \in SUBSET s |-> h[r]]
    <2>1. IsSum(g, s, k) BY <1>1, <1>3, SumOfPart
    <2>2. k[s] = h[s] OBVIOUS
    <2> HIDE DEF k, s
    <2> QED BY <1>3, <2>1, <2>2, SumIsSum
  <1> QED BY <1>2, <1>4, <1>5

\* A sum of natural numbers is one.
LEMMA SumTyped ==
  ASSUME NEW S, IsFiniteSet(S), NEW g, \A x \in S : g[x] \in Nat
  PROVE  SumFunctionOnSet(g, S) \in Nat
PROOF
  <1> DEFINE Sum(s) == SumFunctionOnSet(g, s)
             T == {s \in SUBSET S : Sum(s) \notin Nat}
  <1>1. \A s \in SUBSET S : Sum(s) = IF s = {} THEN 0 ELSE g[Pick(s)] + Sum(s \ {Pick(s)})
    BY SumSteps, FS_Subset
  <1> HIDE DEF Sum
  <1>2. T \in SUBSET (SUBSET S) OBVIOUS
  <1>3. ASSUME T # {} PROVE FALSE
    <2>1. PICK s \in T : \A r \in T : ~(r \subseteq s /\ r # s)
      <3> HIDE DEF T
      <3> QED BY <1>2, <1>3, LeastSet
    <2>2. s \in SUBSET S /\ Sum(s) \notin Nat BY <2>1
    <2>3. s # {}
      <3>1. Sum({}) = 0 BY <1>1
      <3>2. 0 \in Nat OBVIOUS
      <3> QED BY Zenon, <2>2, <3>1, <3>2
    <2>4. Pick(s) \in s BY <2>3, PickOne
    <2>5. s \ {Pick(s)} \in SUBSET S /\ s \ {Pick(s)} \subseteq s /\ s \ {Pick(s)} # s
      BY <2>2, <2>4
    <2>6. Sum(s \ {Pick(s)}) \in Nat BY <2>1, <2>5
    <2>7. g[Pick(s)] \in Nat BY <2>2, <2>4
    <2> QED BY <1>1, <2>2, <2>3, <2>6, <2>7
  <1>4. S \in SUBSET S /\ S \notin T BY <1>3
  <1>5. Sum(S) \in Nat BY <1>4
  <1> QED BY <1>5 DEF Sum

\* The order does not matter: any element can be added last.
LEMMA SumSplits ==
  ASSUME NEW S, IsFiniteSet(S), NEW g, \A y \in S : g[y] \in Nat, NEW x \in S
  PROVE  SumFunctionOnSet(g, S) = g[x] + SumFunctionOnSet(g, S \ {x})
PROOF
  <1> DEFINE Sum(s) == SumFunctionOnSet(g, s)
             T == {s \in SUBSET S : \E y \in s : Sum(s) # g[y] + Sum(s \ {y})}
  <1>1. \A s \in SUBSET S : Sum(s) = IF s = {} THEN 0 ELSE g[Pick(s)] + Sum(s \ {Pick(s)})
    BY SumSteps, FS_Subset
  <1>2. \A s \in SUBSET S : Sum(s) \in Nat BY SumTyped, FS_Subset
  <1> HIDE DEF Sum
  <1>3. T \in SUBSET (SUBSET S) OBVIOUS
  <1>4. ASSUME T # {} PROVE FALSE
    <2>1. PICK s \in T : \A r \in T : ~(r \subseteq s /\ r # s)
      <3> HIDE DEF T
      <3> QED BY <1>3, <1>4, LeastSet
    <2>2. s \in SUBSET S BY <2>1
    <2>3. PICK y \in s : Sum(s) # g[y] + Sum(s \ {y}) BY <2>1
    <2> DEFINE c == Pick(s)
    <2>4. c \in s BY <2>3, PickOne
    <2>5. Sum(s) = g[c] + Sum(s \ {c}) BY <1>1, <2>2, <2>3
    <2> HIDE DEF c
    <2>6. y # c BY <2>3, <2>5
    <2>7. ASSUME NEW z \in s, NEW d \in s, z # d
          PROVE  Sum(s \ {z}) = g[d] + Sum((s \ {z}) \ {d})
      <3>1. s \ {z} \in SUBSET S /\ s \ {z} \subseteq s /\ s \ {z} # s BY <2>2
      <3>2. s \ {z} \notin T BY <2>1, <3>1
      <3>3. d \in s \ {z} BY <2>7
      <3> QED BY <3>1, <3>2, <3>3
    <2>8. (s \ {c}) \ {y} = (s \ {y}) \ {c} OBVIOUS
    <2> DEFINE r == (s \ {y}) \ {c}
    <2>9. Sum(s \ {c}) = g[y] + Sum(r) /\ Sum(s \ {y}) = g[c] + Sum(r)
      BY <2>3, <2>4, <2>6, <2>7, <2>8
    <2>10. Sum(r) \in Nat /\ g[y] \in Nat /\ g[c] \in Nat
      BY <1>2, <2>2, <2>3, <2>4
    <2> HIDE DEF r
    <2> QED BY <2>3, <2>5, <2>9, <2>10
  <1>5. S \in SUBSET S /\ S \notin T BY <1>4
  <1>6. Sum(S) = g[x] + Sum(S \ {x}) BY <1>5
  <1> QED BY <1>6 DEF Sum

\* Two sums are the same when one has the numbers of the other at other places.
LEMMA SumMoves ==
  ASSUME NEW S, IsFiniteSet(S), NEW g, NEW h, NEW m,
         \A x \in S : g[x] \in Nat /\ h[m[x]] = g[x],
         \A x, y \in S : m[x] = m[y] => x = y
  PROVE  SumFunctionOnSet(h, {m[x] : x \in S}) = SumFunctionOnSet(g, S)
PROOF
  <1> DEFINE Moved(s) == {m[x] : x \in s}
             T == {s \in SUBSET S : SumFunctionOnSet(h, Moved(s)) # SumFunctionOnSet(g, s)}
  <1>1. T \in SUBSET (SUBSET S) OBVIOUS
  <1>2. ASSUME NEW s \in SUBSET S
        PROVE  IsFiniteSet(s) /\ IsFiniteSet(Moved(s)) /\ \A y \in Moved(s) : h[y] \in Nat
    <2>1. IsFiniteSet(s) BY FS_Subset
    <2>2. IsFiniteSet(Moved(s))
      <3> DEFINE f == [x \in s |-> m[x]]
      <3>1. f \in Surjection(s, Moved(s)) BY DEF Surjection
      <3> HIDE DEF f, Moved
      <3> QED BY <2>1, <3>1, FS_Surjection
    <2> QED BY <2>1, <2>2
  <1>3. ASSUME T # {} PROVE FALSE
    <2>1. PICK s \in T : \A r \in T : ~(r \subseteq s /\ r # s)
      <3> HIDE DEF T
      <3> QED BY <1>1, <1>3, LeastSet
    <2>2. s \in SUBSET S /\ SumFunctionOnSet(h, Moved(s)) # SumFunctionOnSet(g, s) BY <2>1
    <2>3. s # {}
      <3>1. ASSUME s = {} PROVE FALSE
        <4>1. Moved(s) = {} BY <3>1
        <4> HIDE DEF Moved
        <4>2. SumFunctionOnSet(h, {}) = 0 /\ SumFunctionOnSet(g, {}) = 0 BY SumSteps, FS_EmptySet
        <4> QED BY <2>2, <3>1, <4>1, <4>2
      <3> QED BY <3>1
    <2>4. PICK c \in s : TRUE BY <2>3
    <2> DEFINE r == s \ {c}
    <2>5. r \in SUBSET S /\ r \subseteq s /\ r # s BY <2>2, <2>4
    <2>6. SumFunctionOnSet(h, Moved(r)) = SumFunctionOnSet(g, r) BY <2>1, <2>5
    <2>7. Moved(r) = Moved(s) \ {m[c]} /\ m[c] \in Moved(s) BY <2>2, <2>4
    <2>8. SumFunctionOnSet(g, s) = g[c] + SumFunctionOnSet(g, r)
      <3>1. \A y \in s : g[y] \in Nat BY <2>2
      <3> QED BY <1>2, <2>2, <2>4, <3>1, SumSplits
    <2>9. SumFunctionOnSet(h, Moved(s)) = h[m[c]] + SumFunctionOnSet(h, Moved(r))
      <3>1. IsFiniteSet(Moved(s)) /\ \A y \in Moved(s) : h[y] \in Nat BY <1>2, <2>2
      <3> HIDE DEF Moved, r
      <3> QED BY <2>7, <3>1, SumSplits
    <2>10. h[m[c]] = g[c] BY <2>2, <2>4
    <2> HIDE DEF Moved, r
    <2> QED BY <2>2, <2>6, <2>8, <2>9, <2>10
  <1>4. S \in SUBSET S /\ S \notin T BY <1>3
  <1> QED BY <1>4

-----------------------------------------------------------------------------
(* The window *)

\* The ticks of the window.
Window == 1 .. RATE_LIMIT_WINDOW

\* The attempts in the window.
Attempts(f) == SumFunctionOnSet(f, Window)

\* They are finitely many.
LEMMA WindowIsFinite == IsFiniteSet(Window) /\ RATE_LIMIT_WINDOW \in Window
PROOF
  <1>1. PICK a, b \in Int : a = 1 /\ b = RATE_LIMIT_WINDOW BY Limits
  <1>2. IsFiniteSet(a .. b) BY FS_Interval
  <1> QED BY <1>1, <1>2, Limits DEF Window

\* What SumFunction says of the recent attempts.
LEMMA AttemptsSummed == TypeOK => SumFunction(recent) = Attempts(recent)
PROOF
  <1> SUFFICES ASSUME TypeOK PROVE SumFunction(recent) = Attempts(recent) OBVIOUS
  <1>1. DOMAIN recent = Window BY DEF TypeOK, Window
  <1> QED BY Zenon, <1>1 DEF SumFunction, Attempts

\* Attempts are counted.
LEMMA AttemptsTyped == ASSUME NEW f \in [Window -> Nat] PROVE Attempts(f) \in Nat
PROOF
  <1>1. \A k \in Window : f[k] \in Nat OBVIOUS
  <1> QED BY <1>1, WindowIsFinite, SumTyped DEF Attempts

\* An empty window.
LEMMA NoAttemptsCount == Attempts(NoAttempts) = 0
PROOF
  <1> DEFINE Sum(s) == SumFunctionOnSet(NoAttempts, s)
             T == {s \in SUBSET Window : Sum(s) # 0}
  <1>1. \A s \in SUBSET Window :
          Sum(s) = IF s = {} THEN 0 ELSE NoAttempts[Pick(s)] + Sum(s \ {Pick(s)})
    BY SumSteps, FS_Subset, WindowIsFinite
  <1>2. \A k \in Window : NoAttempts[k] = 0 BY DEF NoAttempts, Window
  <1> HIDE DEF Sum
  <1>3. T \in SUBSET (SUBSET Window) OBVIOUS
  <1>4. ASSUME T # {} PROVE FALSE
    <2>1. PICK s \in T : \A r \in T : ~(r \subseteq s /\ r # s)
      <3> HIDE DEF T
      <3> QED BY <1>3, <1>4, LeastSet, WindowIsFinite
    <2>2. s \in SUBSET Window /\ Sum(s) # 0 BY <2>1
    <2>3. s # {}
      <3>1. Sum({}) = 0 BY <1>1
      <3> QED BY Zenon, <2>2, <3>1
    <2>4. Pick(s) \in s BY <2>3, PickOne
    <2> DEFINE r == s \ {Pick(s)}
    <2>5. r \in SUBSET Window /\ r \subseteq s /\ r # s BY <2>2, <2>4
    <2>6. Sum(r) = 0 BY <2>1, <2>5
    <2>7. NoAttempts[Pick(s)] = 0 BY <1>2, <2>2, <2>4
    <2>8. Sum(s) = NoAttempts[Pick(s)] + Sum(r) BY <1>1, <2>2, <2>3
    <2> HIDE DEF r
    <2> QED BY <2>2, <2>6, <2>7, <2>8
  <1>5. Window \in SUBSET Window /\ Window \notin T BY <1>4
  <1>6. Sum(Window) = 0 BY <1>5
  <1> QED BY <1>6 DEF Sum, Attempts

\* Two lists of numbers that agree on a set have the same sum over it.
LEMMA SumAgrees ==
  ASSUME NEW s \in SUBSET Window, NEW f \in [Window -> Nat], NEW g \in [Window -> Nat],
         \A k \in s : f[k] = g[k]
  PROVE  SumFunctionOnSet(f, s) = SumFunctionOnSet(g, s)
PROOF
  <1> DEFINE m == [k \in s |-> k]
  <1>1. IsFiniteSet(s) BY WindowIsFinite, FS_Subset
  <1>2. \A k \in s : g[k] \in Nat /\ f[m[k]] = g[k] OBVIOUS
  <1>3. \A x, y \in s : m[x] = m[y] => x = y OBVIOUS
  <1>4. {m[x] : x \in s} = s OBVIOUS
  <1> HIDE DEF m
  <1>5. SumFunctionOnSet(f, {m[x] : x \in s}) = SumFunctionOnSet(g, s)
    BY <1>1, <1>2, <1>3, SumMoves
  <1> QED BY <1>4, <1>5

\* A failure is one attempt more.
LEMMA FailedCounts == TypeOK => Attempts(Failed) = Attempts(recent) + 1
PROOF
  <1> SUFFICES ASSUME TypeOK PROVE Attempts(Failed) = Attempts(recent) + 1 OBVIOUS
  <1> DEFINE n == RATE_LIMIT_WINDOW
             s == Window \ {n}
  <1>1. recent \in [Window -> Nat] /\ Failed \in [Window -> Nat]
    <2>1. recent \in [Window -> Nat] BY DEF TypeOK, Window
    <2>2. Failed = [recent EXCEPT ![n] = recent[n] + 1] BY DEF Failed
    <2>3. n \in Window BY WindowIsFinite
    <2> HIDE DEF n
    <2>4. recent[n] + 1 \in Nat BY <2>1, <2>3
    <2> QED BY <2>1, <2>2, <2>4
  <1>2. n \in Window BY WindowIsFinite
  <1>3. Failed[n] = recent[n] + 1 /\ \A k \in s : Failed[k] = recent[k]
    BY <1>1, <1>2 DEF Failed, Window
  <1>4. IsFiniteSet(Window) BY WindowIsFinite
  <1>5. \A k \in Window : recent[k] \in Nat /\ Failed[k] \in Nat BY <1>1
  <1>6. s \in SUBSET Window OBVIOUS
  <1> HIDE DEF n
  <1>7. Attempts(recent) = recent[n] + SumFunctionOnSet(recent, s)
    BY <1>2, <1>4, <1>5, SumSplits DEF Attempts
  <1>8. Attempts(Failed) = Failed[n] + SumFunctionOnSet(Failed, s)
    BY <1>2, <1>4, <1>5, SumSplits DEF Attempts
  <1> HIDE DEF s
  <1>9. SumFunctionOnSet(Failed, s) = SumFunctionOnSet(recent, s)
    BY <1>1, <1>3, <1>6, SumAgrees
  <1>10. SumFunctionOnSet(recent, s) \in Nat
    <2>1. IsFiniteSet(s) /\ \A k \in s : recent[k] \in Nat BY <1>4, <1>5, <1>6, FS_Subset
    <2> QED BY <2>1, SumTyped
  <1>11. recent[n] \in Nat BY <1>2, <1>5
  <1> QED BY <1>3, <1>7, <1>8, <1>9, <1>10, <1>11

\* Time lets attempts leave the window and adds none.
LEMMA TickForgets == TypeOK /\ Tick => Attempts(recent') <= Attempts(recent)
PROOF
  <1> SUFFICES ASSUME TypeOK, Tick PROVE Attempts(recent') <= Attempts(recent) OBVIOUS
  <1> DEFINE n == RATE_LIMIT_WINDOW
             s == Window \ {n}
             m == [k \in s |-> k + 1]
  <1>1. recent \in [Window -> Nat] BY DEF TypeOK, Window
  <1>2. n \in Window /\ IsFiniteSet(Window) /\ n \in Nat \ {0} BY WindowIsFinite, Limits
  <1>3. recent' = [k \in Window |-> IF k < n THEN recent[k + 1] ELSE 0] BY DEF Tick, Aged, Window
  <1>4. recent' \in [Window -> Nat] BY <1>1, <1>2, <1>3 DEF Window
  <1>5. \A k \in s : recent'[k] \in Nat /\ recent[m[k]] = recent'[k]
    BY <1>2, <1>3, <1>4 DEF Window
  <1>6. \A x, y \in s : m[x] = m[y] => x = y BY <1>2 DEF Window
  <1>7. {m[x] : x \in s} = Window \ {1}
    <2>1. ASSUME NEW k \in Window \ {1} PROVE k - 1 \in s /\ m[k - 1] = k
      BY <1>2, <2>1 DEF Window
    <2>2. ASSUME NEW x \in s PROVE m[x] \in Window \ {1} BY <1>2, <2>2 DEF Window
    <2> HIDE DEF m, s
    <2>3. \A y \in Window \ {1} : \E x \in s : y = m[x] BY <2>1
    <2> QED BY <2>2, <2>3
  <1>8. IsFiniteSet(s) BY <1>2, FS_Subset
  <1>9. recent'[n] = 0 BY <1>2, <1>3
  <1>10. 1 \in Window BY <1>2 DEF Window
  <1>11. \A k \in Window : recent[k] \in Nat /\ recent'[k] \in Nat BY <1>1, <1>4
  <1> HIDE DEF m, n
  <1>12. Attempts(recent') = recent'[n] + SumFunctionOnSet(recent', s)
    BY <1>2, <1>11, SumSplits DEF Attempts
  <1> HIDE DEF s
  <1>13. SumFunctionOnSet(recent, {m[x] : x \in s}) = SumFunctionOnSet(recent', s)
    BY <1>5, <1>6, <1>8, SumMoves
  <1>14. Attempts(recent) = recent[1] + SumFunctionOnSet(recent, Window \ {1})
    BY <1>2, <1>10, <1>11, SumSplits DEF Attempts
  <1>15. SumFunctionOnSet(recent, Window \ {1}) \in Nat
    <2>1. IsFiniteSet(Window \ {1}) BY <1>2, FS_Subset
    <2> QED BY <1>11, <2>1, SumTyped
  <1>16. recent[1] \in Nat BY <1>10, <1>11
  <1>17. Attempts(recent') = SumFunctionOnSet(recent, Window \ {1})
    BY <1>7, <1>9, <1>12, <1>13, <1>15
  <1> QED BY <1>14, <1>15, <1>16, <1>17

\* The threads that the check let pass.
Passed == {w \in Workers : worker[w] \in Codes}

\* Attempts in the window and those that the check let pass stay, together, below the
\* limit and the threads.
WindowInv ==
  Workers # {} /\ ~mayTear =>
    Attempts(recent) + Cardinality(Passed) <= RATE_LIMIT_MAX_ATTEMPTS + Cardinality(Workers) - 1

\* The threads are a finite set, and so are those that passed.
LEMMA PassedIsFinite ==
  ASSUME NEW s \in SUBSET Workers
  PROVE  /\ IsFiniteSet(s) /\ Cardinality(s) \in Nat
         /\ Cardinality(Workers) \in Nat
         /\ Cardinality(s) <= Cardinality(Workers)
PROOF BY WorkersAssumption, FS_Subset, FS_CardinalityType

\* A thread that passes the check found the window below its limit, and its record moves
\* it from one term to the other.
LEMMA NextWindow == TypeOK /\ TornMaybe /\ WindowInv /\ [Next]_vars => WindowInv'
PROOF
  <1> DEFINE Bound == Attempts(recent) + Cardinality(Passed)
                        <= RATE_LIMIT_MAX_ATTEMPTS + Cardinality(Workers) - 1
  <1> SUFFICES ASSUME TypeOK, TornMaybe, Workers # {}, ~mayTear, Bound, [Next]_vars PROVE Bound'
    BY MayTearStays DEF WindowInv
  <1>t. /\ RATE_LIMIT_MAX_ATTEMPTS \in Nat \ {0}
        /\ Attempts(recent) \in Nat /\ Attempts(recent') \in Nat
        /\ Passed \in SUBSET Workers /\ Passed' \in SUBSET Workers
        /\ Cardinality(Passed) \in Nat /\ Cardinality(Passed') \in Nat
        /\ Cardinality(Workers) \in Nat /\ Cardinality(Passed') <= Cardinality(Workers)
    <2>1. recent \in [Window -> Nat] /\ recent' \in [Window -> Nat]
      BY NextTypeOK DEF TypeOK, Window
    <2>2. Passed \in SUBSET Workers /\ Passed' \in SUBSET Workers BY DEF Passed
    <2>3. Attempts(recent) \in Nat /\ Attempts(recent') \in Nat BY <2>1, AttemptsTyped
    <2>4. RATE_LIMIT_MAX_ATTEMPTS \in Nat \ {0} BY LimitsAssumption
    <2> QED BY <2>2, <2>3, <2>4, PassedIsFinite
  <1>f. Attempts(recent') < RATE_LIMIT_MAX_ATTEMPTS => Bound' BY <1>t
  <1>u. Attempts(recent') <= Attempts(recent) /\ Passed' = Passed => Bound' BY <1>t
  <1>1. ASSUME NEW w \in Workers, NEW code \in Codes, Check(w, code) PROVE Bound'
    <2>1. recent' = recent BY <1>1, Checks
    <2>2. CASE block > 0 \/ FullWindow
      <3>1. worker[w] = "idle" /\ worker'[w] = "refused"
        BY <1>1, <2>2, Checks, LookTyped, Limits DEF NotBlocked, TypeOK
      <3>2. \A v \in Workers \ {w} : worker'[v] = worker[v]
        BY <1>1, Checks, LookTyped DEF TypeOK
      <3>3. Passed' = Passed BY <3>1, <3>2 DEF Passed, Codes
      <3> QED BY <2>1, <3>3, <1>t, <1>u
    <2>3. CASE ~FullWindow
      <3>1. Attempts(recent) < RATE_LIMIT_MAX_ATTEMPTS
        BY <2>3, <1>t, AttemptsSummed DEF FullWindow
      <3> QED BY <2>1, <3>1, <1>f
    <2> QED BY <2>2, <2>3
  <1>2. ASSUME NEW w \in Workers, Record(w) PROVE Bound'
    <2>1. CASE worker[w] = "right"
      <3>1. Attempts(recent') = 0 BY <1>2, <2>1, NoAttemptsCount DEF Record
      <3> QED BY <3>1, <1>f, <1>t
    <2>2. CASE worker[w] # "right"
      <3>1. Attempts(recent') = Attempts(recent) + 1
        BY <1>2, <2>2, FailedCounts DEF Record
      <3>2. w \in Passed /\ Passed' = Passed \ {w}
        BY <1>2, <2>2 DEF Record, Passed, Codes, TypeOK
      <3>3. Cardinality(Passed') = Cardinality(Passed) - 1
        BY <3>2, <1>t, PassedIsFinite, FS_RemoveElement
      <3> QED BY <3>1, <3>3, <1>t
    <2> QED BY <2>1, <2>2
  <1>3. ASSUME NEW w \in Workers, Refuse(w) PROVE Bound'
    <2>1. Passed' = Passed BY <1>3 DEF Refuse, Passed, Codes, TypeOK
    <2>2. recent' = recent BY <1>3 DEF Refuse
    <2> QED BY <2>1, <2>2, <1>t, <1>u
  <1>4. CASE Tick
    <2>1. Passed' = Passed BY <1>4 DEF Tick, Passed
    <2> QED BY <2>1, <1>4, <1>u, TickForgets
  <1>5. CASE Restart
    <2>1. Attempts(recent') = 0 BY <1>5, NoAttemptsCount DEF Restart
    <2> QED BY <2>1, <1>f, <1>t
  <1>6. CASE UNCHANGED vars
    <2>1. Passed' = Passed /\ recent' = recent BY <1>6 DEF vars, Passed
    <2> QED BY <2>1, <1>t, <1>u
  <1>7. ASSUME NEW w \in Workers, Lift(w) \/ Store(w) PROVE FALSE
    BY <1>7 DEF Lift, Store, TornMaybe
  <1> QED BY <1>1, <1>2, <1>3, <1>4, <1>5, <1>6, <1>7 DEF Next

\* For any limits and any number of threads, the window of an address holds no more than
\* the attempts it takes and one for each other thread (check_rate_limit in one thread,
\* record_attempt in another), when no check is torn.
THEOREM WindowStaysBounded == Spec => []WindowBounded
PROOF
  <1>1. Init => WindowInv
    <2> SUFFICES ASSUME Init, Workers # {}, ~mayTear PROVE
          Attempts(recent) + Cardinality(Passed)
            <= RATE_LIMIT_MAX_ATTEMPTS + Cardinality(Workers) - 1
      BY DEF WindowInv
    <2>1. Attempts(recent) = 0 BY NoAttemptsCount DEF Init
    <2>2. Passed = {} BY DEF Init, Passed, Codes
    <2>3. Cardinality({}) = 0 BY FS_EmptySet
    <2>4. Cardinality(Workers) \in Nat /\ Cardinality(Workers) # 0
      BY WorkersAssumption, FS_CardinalityType, FS_EmptySet
    <2>5. RATE_LIMIT_MAX_ATTEMPTS \in Nat BY LimitsAssumption
    <2> QED BY <2>1, <2>2, <2>3, <2>4, <2>5
  <1>2. TypeOK /\ WindowInv => WindowBounded
    <2> SUFFICES ASSUME TypeOK, WindowInv, Workers # {}, ~mayTear
                 PROVE  SumFunction(recent)
                          <= RATE_LIMIT_MAX_ATTEMPTS + Cardinality(Workers) - 1
      BY DEF WindowBounded
    <2>1. Passed \in SUBSET Workers /\ recent \in [Window -> Nat]
      BY DEF Passed, TypeOK, Window
    <2>2. Attempts(recent) \in Nat BY <2>1, AttemptsTyped
    <2>3. RATE_LIMIT_MAX_ATTEMPTS \in Nat BY LimitsAssumption
    <2>4. SumFunction(recent) = Attempts(recent) BY AttemptsSummed
    <2> QED BY <2>1, <2>2, <2>3, <2>4, PassedIsFinite DEF WindowInv
  <1>3. IInv => TypeOK /\ TornMaybe BY DEF IInv
  <1> QED BY <1>1, <1>2, <1>3, NextWindow, SpecIInv, PTL DEF Spec
=============================================================================
