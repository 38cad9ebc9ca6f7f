----------------------------- MODULE AccountsProofs -----------------------------
(***************************************************************************)
(* Theorems about Accounts, for any number of changes of password under    *)
(* way, any passwords, and whatever calls to Supabase are lost or late.    *)
(***************************************************************************)
EXTENDS Accounts, TLAPS

-----------------------------------------------------------------------------
\* The inductive invariant.

Over     == {Ended(answer) : answer \in Answers}
UnderWay == [at : Calls, current : Passwords, next : Passwords, met : SUBSET Passwords]

ChangesOK == change \in [Requests -> Over \cup UnderWay]

\* An obligation goes with a password of the operator's, in the account and in
\* every token that was cut from it.
Agrees(holder) == holder.must <=> holder.by = "operator"

ObligationOK ==
  /\ account # Null => Agrees(account)
  /\ \A token \in tokens : Agrees(token)

\* A token was issued for an account, and there is no way to be rid of one.
TokensOK == tokens # {} => account \in Account

\* A change under way has met the password in force, and once the current one was
\* proved, that one too.
MetOK ==
  \A r \in Requests :
    /\ change[r].at \in Calls => account \in Account /\ account.password \in change[r].met
    /\ change[r].at \in {"set", "late"} => change[r].current \in change[r].met

IInv == TypeOK /\ ChangesOK /\ ObligationOK /\ TokensOK /\ MetOK

-----------------------------------------------------------------------------
\* What the helpers do to changes.

\* A change that is over is not under way, and says which it is.
LEMMA EndedIsOver ==
  ASSUME NEW answer \in Answers
  PROVE  /\ Ended(answer) \in Over
         /\ Ended(answer).at = answer
         /\ Ended(answer).at \notin Calls
         /\ Ended(answer).at # "late"
BY DEF Ended, Over, Answers, Refusals, Calls

\* A change that is at a call is under way.
LEMMA OnTheWay ==
  ASSUME IInv, NEW r \in Requests, change[r].at \in Calls
  PROVE  change[r] \in UnderWay
BY EndedIsOver DEF IInv, ChangesOK, Over

\* Whoever is under way takes note of a new password, and changes in nothing else.
LEMMA SeenNotes ==
  ASSUME NEW q \in Over \cup UnderWay, NEW password \in Passwords
  PROVE  /\ Seen(q, password) \in Over \cup UnderWay
         /\ Seen(q, password).at = q.at
         /\ q.at \in Calls => password \in Seen(q, password).met
         /\ q.at \in Calls => q.met \subseteq Seen(q, password).met
         /\ Seen(q, password).current = q.current
<1>1. CASE q \in Over
  BY <1>1, EndedIsOver DEF Over, Seen
<1>2. CASE q \in UnderWay
  BY <1>2 DEF UnderWay, Seen
<1> QED BY <1>1, <1>2

\* The operator's password is in force with its obligation, and every change under
\* way has seen it.
LEMMA LandsKeeps ==
  ASSUME IInv, NEW call, NEW password \in Passwords, Lands(call, password)
  PROVE  /\ account' \in Account
         /\ Agrees(account')
         /\ ChangesOK'
         /\ MetOK'
<1>1. account' \in Account /\ account'.password = password /\ Agrees(account')
  BY DEF Lands, Becomes, Account, Agrees
<1>2. ChangesOK'
  BY SeenNotes DEF IInv, ChangesOK, Lands
<1>3. MetOK'
  BY <1>1, SeenNotes DEF IInv, ChangesOK, MetOK, Lands, Calls
<1> QED BY <1>1, <1>2, <1>3

\* So is the owner's, without one, and the change that brought it is over.
LEMMA OwnerKeeps ==
  ASSUME IInv, NEW r \in Requests, change[r].at \in {"set", "late"},
         NEW answer \in Answers,
         Becomes(change[r].next, FALSE, "owner"), Changes(r, answer)
  PROVE  /\ account' \in Account
         /\ Agrees(account')
         /\ ChangesOK'
         /\ MetOK'
<1>1. change[r] \in UnderWay
  BY EndedIsOver DEF IInv, ChangesOK, Over, Answers, Refusals
<1>2. account' \in Account /\ account'.password = change[r].next /\ Agrees(account')
  BY <1>1 DEF Becomes, Account, Agrees, UnderWay
<1>3. change[r].next \in Passwords
  BY <1>1 DEF UnderWay
<1>4. ChangesOK'
  BY <1>3, SeenNotes, EndedIsOver DEF IInv, ChangesOK, Changes
<1>5. MetOK'
  BY <1>2, <1>3, SeenNotes, EndedIsOver DEF IInv, ChangesOK, MetOK, Changes, Calls
<1> QED BY <1>2, <1>4, <1>5

\* TypeOK says of a change what ChangesOK does.
LEMMA TypedByChanges ==
  ASSUME (account = Null \/ account \in Account)',
         (tokens \subseteq Token)',
         (keys \in {"none", "loaded"})',
         (operator \in {"none", "create", "reset"})',
         (delayed \subseteq {"create", "reset"} \X Passwords)',
         ChangesOK'
  PROVE  TypeOK'
BY DEF TypeOK, ChangesOK, Over, UnderWay

LEMMA InvInit == Init => IInv
<1> SUFFICES ASSUME Init PROVE IInv
  OBVIOUS
<1>1. ChangesOK
  BY DEF Init, ChangesOK, Over, Answers, Refusals
<1>2. MetOK
  BY EndedIsOver DEF Init, MetOK, Answers, Refusals, Calls
<1>3. TypeOK
  BY DEF Init, TypeOK, Answers, Refusals
<1> QED
  BY <1>1, <1>2, <1>3 DEF Init, IInv, ObligationOK, TokensOK

\* What an action that leaves the account and the changes alone has to keep.
LEMMA ChangesUnchanged ==
  ASSUME IInv, UNCHANGED <<account, change>>
  PROVE  ChangesOK' /\ MetOK'
BY DEF IInv, ChangesOK, MetOK

\* Neither a token nor the account's word about the obligation is touched.
LEMMA ObligationUnchanged ==
  ASSUME IInv, UNCHANGED <<account, tokens>>
  PROVE  ObligationOK' /\ TokensOK'
BY DEF IInv, ObligationOK, TokensOK, Agrees

\* A change of password moves on or ends without a call of its own taking effect.
LEMMA MovesOn ==
  ASSUME IInv, NEW r \in Requests, NEW to \in Over \cup UnderWay,
         change' = [change EXCEPT ![r] = to],
         UNCHANGED <<account, tokens, keys, operator, delayed>>,
         to.at \in Calls => account \in Account /\ account.password \in to.met,
         to.at \in {"set", "late"} => to.current \in to.met
  PROVE  IInv'
<1>1. ChangesOK'
  BY DEF IInv, ChangesOK
<1>2. MetOK'
  BY DEF IInv, ChangesOK, MetOK
<1> QED
  BY <1>1, <1>2, ObligationUnchanged, TypedByChanges DEF IInv, TypeOK

-----------------------------------------------------------------------------
\* Every step keeps the invariant.

LEMMA TokensNext ==
  ASSUME IInv, SignIn \/ \E token \in tokens : Expires(token)
  PROVE  IInv'
<1>1. UNCHANGED <<account, keys, change, operator, delayed>>
  BY DEF SignIn, Expires
<1>2. tokens' \subseteq Token /\ ObligationOK' /\ TokensOK'
  <2>1. CASE SignIn
    BY <2>1 DEF SignIn, IInv, TypeOK, ObligationOK, TokensOK, Agrees, Token, Account
  <2>2. CASE \E token \in tokens : Expires(token)
    BY <2>2 DEF Expires, IInv, TypeOK, ObligationOK, TokensOK, Agrees
  <2> QED BY <2>1, <2>2
<1> QED
  BY <1>1, <1>2, ChangesUnchanged, TypedByChanges DEF IInv, TypeOK

LEMMA OperatorNext ==
  ASSUME IInv,
         \/ \E reset \in BOOLEAN : FindUserByEmail(reset)
         \/ \E p \in Passwords : CreateOrReset(p) \/ OperatorGivesUp(p)
         \/ \E call \in delayed : OperatorLandsLate(call)
  PROVE  IInv'
<1>1. ASSUME NEW reset \in BOOLEAN, FindUserByEmail(reset) PROVE IInv'
  <2>1. operator' \in {"none", "create", "reset"}
    BY <1>1 DEF FindUserByEmail
  <2> QED
    BY <1>1, <2>1, ChangesUnchanged, ObligationUnchanged, TypedByChanges
       DEF FindUserByEmail, IInv, TypeOK
<1>2. ASSUME NEW p \in Passwords, CreateOrReset(p) PROVE IInv'
  <2>1. account' \in Account /\ Agrees(account') /\ ChangesOK' /\ MetOK'
    BY <1>2, LandsKeeps DEF CreateOrReset
  <2> QED
    BY <1>2, <2>1, TypedByChanges
       DEF CreateOrReset, IInv, TypeOK, ObligationOK, TokensOK, Agrees
<1>3. ASSUME NEW p \in Passwords, OperatorGivesUp(p) PROVE IInv'
  <2>1. delayed' \subseteq {"create", "reset"} \X Passwords
    BY <1>3 DEF OperatorGivesUp, IInv, TypeOK
  <2> QED
    BY <1>3, <2>1, ChangesUnchanged, ObligationUnchanged, TypedByChanges
       DEF OperatorGivesUp, IInv, TypeOK
<1>4. ASSUME NEW call \in delayed, OperatorLandsLate(call) PROVE IInv'
  <2>1. call[2] \in Passwords
    BY DEF IInv, TypeOK
  <2>2. account' \in Account /\ Agrees(account') /\ ChangesOK' /\ MetOK'
    BY <1>4, <2>1, LandsKeeps DEF OperatorLandsLate
  <2> QED
    BY <1>4, <2>2, TypedByChanges
       DEF OperatorLandsLate, IInv, TypeOK, ObligationOK, TokensOK, Agrees
<1> QED
  BY <1>1, <1>2, <1>3, <1>4

LEMMA KeysNext ==
  ASSUME IInv, LoadKeys \/ KeysFail
  PROVE  IInv'
<1>1. UNCHANGED <<account, tokens, change, operator, delayed>> /\ keys' \in {"none", "loaded"}
  BY DEF LoadKeys, KeysFail, vars, IInv, TypeOK
<1> QED
  BY <1>1, ChangesUnchanged, ObligationUnchanged, TypedByChanges DEF IInv, TypeOK

LEMMA AskNext ==
  ASSUME IInv, NEW r \in Requests, NEW current \in Passwords, NEW next \in Passwords,
         Ask(r, current, next)
  PROVE  IInv'
<1> DEFINE to == [at |-> "verify", current |-> current, next |-> next,
                  met |-> {account.password}]
<1>1. account \in Account
  BY DEF Ask, IInv, TokensOK
<1>2. to \in UnderWay
  BY <1>1 DEF UnderWay, Account, Calls
<1> QED
  BY <1>1, <1>2, MovesOn DEF Ask

LEMMA VerifyNext ==
  ASSUME IInv, NEW r \in Requests, VerifyPassword(r)
  PROVE  IInv'
<1>1. change[r] \in UnderWay
  BY EndedIsOver DEF VerifyPassword, IInv, ChangesOK, Over, Answers, Refusals
<1>2. account \in Account /\ account.password \in change[r].met
  BY DEF VerifyPassword, IInv, MetOK, Calls
<1>3. CASE change[r].current = account.password /\ change' = [change EXCEPT ![r].at = "set"]
  <2> DEFINE to == [change[r] EXCEPT !.at = "set"]
  <2>1. to \in UnderWay /\ to.met = change[r].met /\ to.current = change[r].current
    BY <1>1 DEF UnderWay, Calls
  <2>2. change' = [change EXCEPT ![r] = to]
    BY <1>3
  <2> QED
    BY <1>2, <1>3, <2>1, <2>2, MovesOn DEF VerifyPassword
<1>4. ASSUME NEW answer \in Answers, change' = [change EXCEPT ![r] = Ended(answer)]
      PROVE  IInv'
  BY <1>4, MovesOn, EndedIsOver DEF VerifyPassword, Calls
<1> QED
  BY <1>3, <1>4 DEF VerifyPassword, Answers, Refusals

LEMMA SetNext ==
  ASSUME IInv, NEW r \in Requests, SetPassword(r) \/ LandsLate(r)
  PROVE  IInv'
<1>1. change[r] \in UnderWay /\ change[r].at \in {"set", "late"}
  <2>1. change[r].at \in {"set", "late"}
    BY DEF SetPassword, LandsLate
  <2>2. change[r] \in UnderWay
    BY <2>1, OnTheWay DEF Calls
  <2> QED BY <2>1, <2>2
<1>2. UNCHANGED <<tokens, keys, operator, delayed>>
  BY DEF SetPassword, LandsLate
<1>3. ASSUME NEW answer \in Answers,
             Becomes(change[r].next, FALSE, "owner"), Changes(r, answer)
      PROVE  IInv'
  <2>1. account' \in Account /\ Agrees(account') /\ ChangesOK' /\ MetOK'
    BY <1>1, <1>3, OwnerKeeps
  <2> QED
    BY <1>2, <2>1, TypedByChanges DEF IInv, TypeOK, ObligationOK, TokensOK, Agrees
<1>4. CASE change' = [change EXCEPT ![r].at = "late"] /\ UNCHANGED account
  <2> DEFINE to == [change[r] EXCEPT !.at = "late"]
  <2>1. to \in UnderWay /\ to.met = change[r].met /\ to.current = change[r].current
    BY <1>1 DEF UnderWay, Calls
  <2>2. change' = [change EXCEPT ![r] = to]
    BY <1>4
  <2>3. /\ account \in Account /\ account.password \in change[r].met
        /\ change[r].current \in change[r].met
    BY <1>1 DEF IInv, MetOK, Calls
  <2> QED
    BY <1>2, <1>4, <2>1, <2>2, <2>3, MovesOn
<1>5. CASE change' = [change EXCEPT ![r] = Ended("failed")] /\ UNCHANGED account
  BY <1>2, <1>5, MovesOn, EndedIsOver DEF Answers, Refusals, Calls
<1> QED
  BY <1>3, <1>4, <1>5 DEF SetPassword, LandsLate, Answers, Refusals

LEMMA RestartNext ==
  ASSUME IInv, Restart
  PROVE  IInv'
<1>1. ASSUME NEW r \in Requests
      PROVE  /\ change'[r] \in Over \cup UnderWay
             /\ change'[r].at \in Calls =>
                  change[r].at \in Calls /\ change'[r].met = change[r].met
             /\ change'[r].at \in {"set", "late"} =>
                  change[r].at \in {"set", "late"} /\ change'[r].current = change[r].current
  <2>1. CASE change[r].at = "verify"
    BY <2>1, EndedIsOver DEF Restart, Answers, Refusals
  <2>2. CASE change[r].at = "set"
    <3>1. change[r] \in UnderWay
      BY <2>2, EndedIsOver DEF IInv, ChangesOK, Over, Answers, Refusals
    <3> QED
      BY <2>2, <3>1 DEF Restart, UnderWay, Calls
  <2>3. CASE change[r].at \notin {"verify", "set"}
    BY <2>3 DEF Restart, IInv, ChangesOK
  <2> QED BY <2>1, <2>2, <2>3
<1>2. ChangesOK'
  BY <1>1 DEF Restart, ChangesOK
<1>3. MetOK'
  BY <1>1 DEF Restart, IInv, MetOK, Calls
<1> QED
  BY <1>2, <1>3, ObligationUnchanged, TypedByChanges DEF Restart, IInv, TypeOK

LEMMA InvNext == IInv /\ [Next]_vars => IInv'
<1> SUFFICES ASSUME IInv, [Next]_vars PROVE IInv'
  OBVIOUS
<1>1. CASE UNCHANGED vars
  BY <1>1, ChangesUnchanged, ObligationUnchanged, TypedByChanges DEF vars, IInv, TypeOK
<1>2. CASE Next
  BY <1>2, TokensNext, OperatorNext, KeysNext, AskNext, VerifyNext, SetNext, RestartNext
     DEF Next
<1> QED BY <1>1, <1>2

-----------------------------------------------------------------------------
\* What a step may answer.

\* A new password leaves everybody else where they are.
LEMMA SeenSilent ==
  ASSUME IInv, NEW r \in Requests, NEW password \in Passwords,
         change'[r] = Seen(change[r], password)
  PROVE  change'[r].at = change[r].at
BY SeenNotes DEF IInv, ChangesOK

\* Only the check of the password tells r that it is wrong, and only the call that
\* sets it that it is changed.
LEMMA WhoAnswers ==
  ASSUME IInv, Next, NEW r \in Requests, change'[r].at # change[r].at,
         change'[r].at \in {"wrong", "changed"}
  PROVE  VerifyPassword(r) \/ SetPassword(r)
<1>1. CASE \/ SignIn \/ \E token \in tokens : Expires(token)
           \/ \E reset \in BOOLEAN : FindUserByEmail(reset)
           \/ \E p \in Passwords : OperatorGivesUp(p)
           \/ LoadKeys \/ KeysFail
  BY <1>1 DEF SignIn, Expires, FindUserByEmail, OperatorGivesUp, LoadKeys, KeysFail, vars
<1>2. ASSUME NEW call, NEW password \in Passwords, Lands(call, password)
      PROVE  FALSE
  BY <1>2, SeenSilent DEF Lands
<1>3. CASE \E p \in Passwords : CreateOrReset(p)
  BY <1>2, <1>3 DEF CreateOrReset
<1>4. CASE \E call \in delayed : OperatorLandsLate(call)
  BY <1>2, <1>4 DEF OperatorLandsLate, IInv, TypeOK
<1>5. ASSUME NEW q \in Requests, NEW current \in Passwords, NEW next \in Passwords,
             Ask(q, current, next)
      PROVE  FALSE
  BY <1>5 DEF Ask, IInv, ChangesOK
<1>6. ASSUME NEW q \in Requests, VerifyPassword(q) PROVE VerifyPassword(r)
  BY <1>6 DEF VerifyPassword, IInv, ChangesOK
<1>7. ASSUME NEW q \in Requests, SetPassword(q) \/ LandsLate(q), q # r PROVE FALSE
  <2>1. change[q] \in UnderWay
    BY <1>7, EndedIsOver DEF SetPassword, LandsLate, IInv, ChangesOK, Over, Answers, Refusals
  <2>2. change[q].next \in Passwords
    BY <2>1 DEF UnderWay
  <2>3. change'[r] = Seen(change[r], change[q].next) \/ change'[r] = change[r]
    BY <1>7 DEF SetPassword, LandsLate, Changes, IInv, ChangesOK
  <2> QED BY <2>2, <2>3, SeenSilent
<1>8. CASE LandsLate(r)
  BY <1>8, EndedIsOver DEF LandsLate, Changes, IInv, ChangesOK, Answers, Refusals
<1>9. CASE Restart
  <2>1. change'[r] = Ended("none") \/ change'[r].at = change[r].at \/ change'[r].at = "late"
    BY <1>9 DEF Restart, IInv, ChangesOK, Over, UnderWay
  <2> QED BY <2>1, EndedIsOver DEF Answers, Refusals
<1> QED
  BY <1>1, <1>3, <1>4, <1>5, <1>6, <1>7, <1>8, <1>9 DEF Next

LEMMA UnderWayShape ==
  ASSUME IInv, NEW r \in Requests, change[r].at \in Calls, NEW at
  PROVE  [change[r] EXCEPT !.at = at].at = at
<1>1. change[r] \in UnderWay
  BY EndedIsOver DEF IInv, ChangesOK, Over
<1> QED BY <1>1 DEF UnderWay

LEMMA StepTruthful ==
  ASSUME IInv, [Next]_vars
  PROVE  [\A r \in Requests : Truthful(r)]_vars
<1> SUFFICES ASSUME Next, NEW r \in Requests PROVE Truthful(r)
  OBVIOUS
<1>1. change[r].at \in {"set", "late"} => change[r].current \in change[r].met
  BY DEF IInv, MetOK
<1>2. ASSUME change[r].at = "verify", change'[r].at = "wrong"
      PROVE  change[r].met # {change[r].current}
  <2>1. VerifyPassword(r)
    BY <1>2, WhoAnswers, EndedIsOver DEF SetPassword
  <2>2. change[r].current # account.password
    <3> DEFINE to == [change[r] EXCEPT !.at = "set"]
    <3>1. to.at = "set"
      BY <1>2, UnderWayShape DEF Calls
    <3>4. change'[r] # to
      BY <1>2, <3>1
    <3>2. ASSUME NEW refusal \in Refusals PROVE change' # [change EXCEPT ![r] = Ended(refusal)]
      <4>1. Ended(refusal).at = refusal /\ refusal # "wrong"
        BY EndedIsOver DEF Answers, Refusals
      <4> QED
        BY <1>2, <4>1 DEF IInv, ChangesOK
    <3>3. change' # [change EXCEPT ![r].at = "set"]
      BY <3>4 DEF IInv, ChangesOK
    <3> QED
      BY <2>1, <3>2, <3>3 DEF VerifyPassword
  <2> QED
    BY <1>2, <2>2 DEF IInv, MetOK, Calls
<1>3. ASSUME change[r].at = "set", change'[r].at = "changed"
      PROVE  account'.password = change[r].next /\ ~account'.must
  <2>1. SetPassword(r)
    BY <1>3, WhoAnswers DEF VerifyPassword
  <2>2. [change[r] EXCEPT !.at = "late"].at = "late"
    BY <1>3, UnderWayShape DEF Calls
  <2>3. change' # [change EXCEPT ![r].at = "late"]
    BY <1>3, <2>2 DEF IInv, ChangesOK
  <2>4. Becomes(change[r].next, FALSE, "owner")
    BY <2>1, <2>3 DEF SetPassword
  <2> QED
    BY <2>4 DEF Becomes
<1> QED
  BY <1>1, <1>2, <1>3 DEF Truthful

-----------------------------------------------------------------------------
\* The theorems.

\* The inductive invariant holds in every reachable state.
THEOREM SafetyInvariant == Spec => []IInv
BY InvInit, InvNext, PTL DEF Spec

\* Supabase's account, the tokens cut from it and every change of password have a
\* shape the code can give them.
THEOREM TypeCorrect == Spec => []TypeOK
<1>1. IInv => TypeOK
  BY DEF IInv
<1> QED
  BY <1>1, SafetyInvariant, PTL

\* adminAuthMiddleware: a password the operator gave never opens the panel, and one
\* the owner chose always does, whatever calls to Supabase were lost, late or crossed.
THEOREM ObligationKept == Spec => []ObligationFollowsPassword
<1>1. IInv => ObligationFollowsPassword
  BY DEF IInv, ObligationOK, Agrees, ObligationFollowsPassword, LetThrough,
         TypeOK, Token
<1> QED
  BY <1>1, SafetyInvariant, PTL

\* registerPasswordChange: nobody changes the password who did not prove one in force
\* since they asked, and what they are told is true.
THEOREM AnswersTrue == Spec => AnswersAreTrue
<1>1. IInv /\ [Next]_vars => [\A r \in Requests : Truthful(r)]_vars
  BY StepTruthful
<1> QED
  BY <1>1, SafetyInvariant, PTL DEF Spec, AnswersAreTrue
=============================================================================
