------------------------------ MODULE RateLimit ------------------------------
(***************************************************************************)
(* The invite codes that one address tries: POST /auth/verify checks the   *)
(* address, compares the code, and records the attempt, in threads that    *)
(* share three dictionaries without a lock.  The steps of several threads  *)
(* interleave: the check and the record, and, when mayTear, the parts of a  *)
(* check: between lines 46 and 47, which lift a block, and within line 50,  *)
(* which writes a filtered copy of the list back over the list.             *)
(*                                                                         *)
(* Time passes in ticks.  A time stamp is kept as the ticks it has left:   *)
(* recent[k] is the number of attempts that leave the window in k ticks,   *)
(* and `block` the ticks until blocked_until.                              *)
(***************************************************************************)
EXTENDS Integers, FiniteSets, Functions

CONSTANTS Workers,
          RATE_LIMIT_WINDOW,        \* in ticks
          RATE_LIMIT_MAX_ATTEMPTS,
          BLOCK_THRESHOLD,
          BLOCK_DURATION            \* in ticks

ASSUME WorkersAssumption == IsFiniteSet(Workers)
ASSUME LimitsAssumption ==
  { RATE_LIMIT_WINDOW, RATE_LIMIT_MAX_ATTEMPTS, BLOCK_THRESHOLD, BLOCK_DURATION } \subseteq Nat \ {0}

NotBlocked == -1

VARIABLES
  recent,    \* _recent_attempts of the address
  failures,  \* _failure_counts of the address
  block,     \* _blocked_until of the address; NotBlocked when it has no entry
  worker,    \* what a thread has passed the check with, or "refused"
  torn,      \* what a thread has left to do of its check, and the copy it made
  mayTear    \* whether threads change places within a check, which is up to the interpreter

vars == << recent, failures, block, worker, torn, mayTear >>

\* verify_invite_code and is_ip_allowed: a code is right when it is one of the
\* invite codes and this address may use it; anything else is a failure.
Codes == {"right", "wrong"}

NoAttempts == [k \in 1 .. RATE_LIMIT_WINDOW |-> 0]

Whole == [at |-> "no", copy |-> NoAttempts]

Init ==
  /\ recent = NoAttempts
  /\ failures = 0
  /\ block = NotBlocked
  /\ worker = [w \in Workers |-> "idle"]
  /\ torn = [w \in Workers |-> Whole]
  /\ mayTear \in BOOLEAN

Failed == [recent EXCEPT ![RATE_LIMIT_WINDOW] = @ + 1]

BugAfterRefusal == IF block > 0 THEN BLOCK_DURATION ELSE block  \* mutant: a refusal renews it

\* The block after an attempt that the check refuses.
AfterRefusal == block

BugFullWindow == SumFunction(recent) > RATE_LIMIT_MAX_ATTEMPTS  \* mutant: off by one

\* As many attempts as the window takes.
FullWindow == SumFunction(recent) >= RATE_LIMIT_MAX_ATTEMPTS

BugAfterLift == failures  \* mutant: the failures outlast the block

\* The failures after a block that has run out.
AfterLift == 0

\* The window is looked at; the copy of the attempts still in it is written back at
\* once, which changes nothing, or later (Store).
Look(w, code) ==
  /\ worker' = [worker EXCEPT ![w] = IF FullWindow THEN "refused" ELSE code]
  /\ \E at \in {"no"} \cup IF mayTear THEN {"store"} ELSE {} :
       torn' = [torn EXCEPT ![w] = [at |-> at, copy |-> IF at = "store" THEN recent ELSE NoAttempts]]

\* check_rate_limit: a block refuses; one that has run out is lifted and the failures
\* are forgotten, at once or later (Lift); then the window is looked at.
Check(w, code) ==
  /\ worker[w] = "idle"
  /\ UNCHANGED << recent, mayTear >>
  /\ \/ /\ block > 0
        /\ worker' = [worker EXCEPT ![w] = "refused"]
        /\ block' = AfterRefusal
        /\ UNCHANGED << failures, torn >>
     \/ /\ block \in {0, NotBlocked}
        /\ block' = NotBlocked
        /\ failures' = IF block = 0 THEN AfterLift ELSE failures
        /\ Look(w, code)
     \/ /\ block = 0 /\ mayTear
        /\ block' = NotBlocked
        /\ worker' = [worker EXCEPT ![w] = code]
        /\ torn' = [torn EXCEPT ![w].at = "lift"]
        /\ UNCHANGED failures

\* The rest of a check that was interrupted after the block was lifted.
Lift(w) ==
  /\ torn[w].at = "lift"
  /\ failures' = AfterLift
  /\ Look(w, worker[w])
  /\ UNCHANGED << recent, block, mayTear >>

\* The copy is written back: what was recorded since it was made is lost.
Store(w) ==
  /\ torn[w].at = "store"
  /\ recent' = torn[w].copy
  /\ torn' = [torn EXCEPT ![w] = Whole]
  /\ UNCHANGED << failures, block, worker, mayTear >>

BugTooMany(n) == n > BLOCK_THRESHOLD  \* mutant: off by one

TooMany(n) == n >= BLOCK_THRESHOLD

\* record_attempt: a success clears the address, a failure may block it anew.  The list
\* that a success takes out of its dictionary is the one that copies go back to.
Record(w) ==
  /\ worker[w] \in Codes /\ torn[w].at = "no"
  /\ worker' = [worker EXCEPT ![w] = "idle"]
  /\ UNCHANGED mayTear
  /\ IF worker[w] = "right"
       THEN /\ recent' = NoAttempts /\ failures' = 0 /\ block' = NotBlocked
            /\ torn' = [v \in Workers |-> IF torn[v].at = "store" THEN Whole ELSE torn[v]]
       ELSE /\ recent' = Failed
            /\ failures' = failures + 1
            /\ block' = IF TooMany(failures + 1) THEN BLOCK_DURATION ELSE block
            /\ UNCHANGED torn

\* The answer 403 or 429 leaves.
Refuse(w) ==
  /\ worker[w] = "refused" /\ torn[w].at = "no"
  /\ worker' = [worker EXCEPT ![w] = "idle"]
  /\ UNCHANGED << recent, failures, block, torn, mayTear >>

\* The attempts of a list a tick later.
Aged(list) == [k \in 1 .. RATE_LIMIT_WINDOW |-> IF k < RATE_LIMIT_WINDOW THEN list[k + 1] ELSE 0]

\* Time passes for the attempts in the window and in copies of it, and for the block.
Tick ==
  /\ recent' = Aged(recent)
  /\ torn' = [w \in Workers |-> [torn[w] EXCEPT !.copy = Aged(@)]]
  /\ block' = IF block > 0 THEN block - 1 ELSE block
  /\ UNCHANGED << failures, worker, mayTear >>

\* The process restarts: the dictionaries live in its memory.
Restart ==
  /\ recent' = NoAttempts
  /\ failures' = 0
  /\ block' = NotBlocked
  /\ worker' = [w \in Workers |-> "idle"]
  /\ torn' = [w \in Workers |-> Whole]
  /\ UNCHANGED mayTear

Next ==
  \/ \E w \in Workers : Lift(w) \/ Store(w) \/ Record(w) \/ Refuse(w)
                        \/ \E code \in Codes : Check(w, code)
  \/ Tick
  \/ Restart

Spec == Init /\ [][Next]_vars

\* Time passes, a thread goes on, and a visitor who knows the code tries it again
\* and again.
FairSpec ==
  /\ Spec
  /\ WF_vars(Tick)
  /\ \A w \in Workers : WF_vars(Lift(w) \/ Store(w) \/ Record(w) \/ Refuse(w))
  /\ SF_vars(\E w \in Workers : Check(w, "right") /\ worker'[w] = "right")
-----------------------------------------------------------------------------
TypeOK ==
  /\ recent \in [1 .. RATE_LIMIT_WINDOW -> Nat]
  /\ failures \in Nat
  /\ block \in {NotBlocked} \cup 0 .. BLOCK_DURATION
  /\ worker \in [Workers -> {"idle", "refused"} \cup Codes]
  /\ torn \in [Workers -> [at : {"no", "lift", "store"}, copy : [1 .. RATE_LIMIT_WINDOW -> Nat]]]
  /\ mayTear \in BOOLEAN

\* The window holds the attempts it takes, and besides them only those that were
\* checked before the last of these was recorded: one for each other thread.  A check
\* that is torn can lose attempts, and then nothing bounds them.
WindowBounded ==
  Workers # {} /\ ~mayTear =>
    SumFunction(recent) <= RATE_LIMIT_MAX_ATTEMPTS + Cardinality(Workers) - 1

\* An address is blocked after its thirty failures: no more codes are tried than
\* those, and one for each other thread that had passed the check already, when no
\* check is torn.
FailuresBounded ==
  Workers # {} /\ ~mayTear => failures <= BLOCK_THRESHOLD + Cardinality(Workers) - 1

\* The three dictionaries agree in the end, however the statements of the threads
\* interleave: no address is left with its thirty failures and no block.
BlockIsKept ==
  failures >= BLOCK_THRESHOLD =>
    block # NotBlocked \/ \E w \in Workers : torn[w].at = "lift"

\* Once nobody tries a wrong code from the address, a visitor who keeps trying the
\* right one is let in, whatever came before: being refused costs nothing, and no
\* block or full window lasts.
PatienceAdmits ==
  <>[](\A w \in Workers : worker[w] # "wrong")
    => []<>(\E w \in Workers : worker[w] = "right" /\ torn[w].at # "lift")
=============================================================================
