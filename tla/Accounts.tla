------------------------------- MODULE Accounts -------------------------------
(***************************************************************************)
(* One admin's account: its password and its first-login obligation, which *)
(* live in Supabase, the tokens that carry the obligation, the operator's  *)
(* cmd/adminuser, and the API's POST /admin/password, which proves the     *)
(* current password with one call and sets the new one with another.       *)
(* Requests to Supabase time out: one that was given up may still land.    *)
(*                                                                         *)
(* What is refused before any call, a password that is too short or an     *)
(* e-mail outside ADMIN_EMAILS, changes nothing and is left out.           *)
(***************************************************************************)
CONSTANTS
  Requests,  \* changes of password under way
  Passwords, \* passwords that are long enough
  Null       \* no account

VARIABLES
  account,  \* what Supabase has
  tokens,   \* tokens in somebody's hands that did not expire
  keys,     \* the validator's signing keys
  change,   \* where each change of password is
  operator, \* what the operator's command is about to do
  delayed   \* the operator's calls that were given up and may still land

vars == <<account, tokens, keys, change, operator, delayed>>

\* "by" is history: who chose the password.
Account == [password : Passwords, must : BOOLEAN, by : {"operator", "owner"}]
Token   == [must : BOOLEAN, by : {"operator", "owner"}]

\* "met" is history: the passwords in force since the change was asked for.
Ended(answer) == [at |-> answer, current |-> Null, next |-> Null, met |-> {}]

\* 422, 503, 429 and 500: a wrong password, this server's key refused, too many
\* attempts, and everything else.
Refusals == {"misconfigured", "limited", "failed"}
Answers  == {"none", "changed", "wrong"} \cup Refusals
Calls   == {"verify", "set", "late"}

Init ==
  /\ account = Null
  /\ tokens = {}
  /\ keys = "none"
  /\ change = [r \in Requests |-> Ended("none")]
  /\ operator = "none"
  /\ delayed = {}

-----------------------------------------------------------------------------
\* Supabase.

\* The account has this password from now on.
Becomes(password, must, by) ==
  account' = [password |-> password, must |-> must, by |-> by]

Seen(q, password) ==
  IF q.at \in Calls THEN [q EXCEPT !.met = @ \cup {password}] ELSE q

\* A sign-in in the panel, or a session renewed: the token says what the
\* account's metadata say now.
SignIn ==
  /\ account # Null
  /\ tokens' = tokens \cup {[must |-> account.must, by |-> account.by]}
  /\ UNCHANGED <<account, keys, change, operator, delayed>>

Expires(token) ==
  /\ tokens' = tokens \ {token}
  /\ UNCHANGED <<account, keys, change, operator, delayed>>

-----------------------------------------------------------------------------
\* cmd/adminuser.

\* The account is looked up: it is created if there is none, and put back on a
\* temporary password if there is one and -reset was given.
FindUserByEmail(reset) ==
  /\ operator = "none"
  /\ reset <=> account # Null
  /\ operator' = IF reset THEN "reset" ELSE "create"
  /\ UNCHANGED <<account, tokens, keys, change, delayed>>

\* CreateAdminUser, which Supabase refuses if there is an account meanwhile, or
\* ResetAdminPassword, with a temporary password.
Lands(call, password) ==
  /\ call = "create" => account = Null
  /\ Becomes(password, TRUE, "operator")
  /\ change' = [r \in Requests |-> Seen(change[r], password)]

CreateOrReset(password) ==
  /\ operator # "none"
  /\ operator' = "none"
  /\ Lands(operator, password)
  /\ UNCHANGED <<tokens, keys, delayed>>

\* An error, or no answer in time.
OperatorGivesUp(password) ==
  /\ operator # "none"
  /\ operator' = "none"
  /\ delayed' \in {delayed, delayed \cup {<<operator, password>>}}
  /\ UNCHANGED <<account, tokens, keys, change>>

OperatorLandsLate(call) ==
  /\ Lands(call[1], call[2])
  /\ delayed' = delayed \ {call}
  /\ UNCHANGED <<tokens, keys, operator>>

-----------------------------------------------------------------------------
\* The API's signing keys, asked for by the first request that has none.

LoadKeys ==
  /\ keys = "none"
  /\ keys' = "loaded"
  /\ UNCHANGED <<account, tokens, change, operator, delayed>>

\* Variant: the first answer is kept, error or not.
KeysFailForGood ==
  /\ keys = "none"
  /\ keys' = "failed"
  /\ UNCHANGED <<account, tokens, change, operator, delayed>>

\* keyfuncLazy: that request is answered 401, and the next one asks again, so that
\* an error is never latched.
KeysFail ==
  /\ keys = "none"
  /\ UNCHANGED vars

\* The panel's operations are reached by a token without the obligation.
LetThrough(token) == keys = "loaded" /\ ~token.must

-----------------------------------------------------------------------------
\* POST /admin/password, which any valid token reaches.

Ask(r, current, next) ==
  /\ keys = "loaded" /\ tokens # {}
  /\ change[r].at \in Answers
  /\ next # current
  /\ change' = [change EXCEPT ![r] =
       [at |-> "verify", current |-> current, next |-> next, met |-> {account.password}]]
  /\ UNCHANGED <<account, tokens, keys, operator, delayed>>

\* Variant: only a wrong password ends the change.
VerifyLeniently(r) ==
  /\ change[r].at = "verify"
  /\ \/ /\ change[r].current # account.password
        /\ change' = [change EXCEPT ![r] = Ended("wrong")]
     \/ change' = [change EXCEPT ![r].at = "set"]
  /\ UNCHANGED <<account, tokens, keys, operator, delayed>>

\* The current password is right or wrong, or Supabase did not say: this server's
\* key is missing or refused, there were too many attempts, or no answer came in
\* time. What was asked is then neither right nor wrong.
VerifyPassword(r) ==
  /\ change[r].at = "verify"
  /\ \/ /\ change[r].current = account.password
        /\ change' = [change EXCEPT ![r].at = "set"]
     \/ /\ change[r].current # account.password
        /\ change' = [change EXCEPT ![r] = Ended("wrong")]
     \/ \E refusal \in Refusals : change' = [change EXCEPT ![r] = Ended(refusal)]
  /\ UNCHANGED <<account, tokens, keys, operator, delayed>>

\* r's call has taken effect, and r ends with this answer.
Changes(r, answer) ==
  change' = [q \in Requests |->
               IF q = r THEN Ended(answer) ELSE Seen(change[q], change[r].next)]

\* Variant: the obligation is cleared with a call of its own, before.
SetPasswordInTwo(r) ==
  /\ change[r].at = "set"
  /\ \/ /\ account' = [account EXCEPT !.must = FALSE]
        /\ UNCHANGED change
     \/ /\ ~account.must
        /\ Becomes(change[r].next, FALSE, "owner")
        /\ Changes(r, "changed")
  /\ UNCHANGED <<tokens, keys, operator, delayed>>

\* One call sets the password and clears the obligation; it is answered, or
\* given up.
SetPassword(r) ==
  /\ change[r].at = "set"
  /\ \/ Becomes(change[r].next, FALSE, "owner") /\ Changes(r, "changed")
     \/ change' = [change EXCEPT ![r].at = "late"] /\ UNCHANGED account
  /\ UNCHANGED <<tokens, keys, operator, delayed>>

\* A call that was given up, and answered as failed, lands after all, or never.
LandsLate(r) ==
  /\ change[r].at = "late"
  /\ \/ Becomes(change[r].next, FALSE, "owner") /\ Changes(r, "failed")
     \/ change' = [change EXCEPT ![r] = Ended("failed")] /\ UNCHANGED account
  /\ UNCHANGED <<tokens, keys, operator, delayed>>

\* The process starts over: its keys and its requests are gone, but for a call
\* already on its way.
Restart ==
  /\ keys' = "none"
  /\ change' = [r \in Requests |->
       CASE change[r].at = "verify" -> Ended("none")
         [] change[r].at = "set"    -> [change[r] EXCEPT !.at = "late"]
         [] OTHER                   -> change[r]]
  /\ UNCHANGED <<account, tokens, operator, delayed>>

-----------------------------------------------------------------------------
Next ==
  \/ SignIn \/ \E token \in tokens : Expires(token)
  \/ \E reset \in BOOLEAN : FindUserByEmail(reset)
  \/ \E p \in Passwords : CreateOrReset(p) \/ OperatorGivesUp(p)
  \/ \E call \in delayed : OperatorLandsLate(call)
  \/ LoadKeys \/ KeysFail
  \/ \E r \in Requests : \E current, next \in Passwords : Ask(r, current, next)
  \/ \E r \in Requests : VerifyPassword(r) \/ SetPassword(r) \/ LandsLate(r)
  \/ Restart

Spec == Init /\ [][Next]_vars

-----------------------------------------------------------------------------
\* Account, tokens and requests have values the code can give them.
TypeOK ==
  /\ account = Null \/ account \in Account
  /\ tokens \subseteq Token
  /\ keys \in {"none", "loaded"}
  /\ operator \in {"none", "create", "reset"}
  /\ delayed \subseteq {"create", "reset"} \X Passwords
  /\ \A r \in Requests :
       \/ \E answer \in Answers : change[r] = Ended(answer)
       \/ change[r] \in [at : Calls, current : Passwords, next : Passwords,
                         met : SUBSET Passwords]

\* adminAuthMiddleware and SetPassword's comment: the obligation is on exactly
\* while the password is one the operator gave, whatever calls were lost, late or
\* crossed, and no token that a temporary password bought opens the panel.
ObligationFollowsPassword ==
  /\ account # Null => (account.must <=> account.by = "operator")
  /\ \A token \in tokens : LetThrough(token) => token.by = "owner"

\* What a step tells whoever asked for the change r, and does to their account.
Truthful(r) ==
  LET q == change[r] IN
  /\ q.at \in {"set", "late"} => q.current \in q.met
  /\ q.at = "verify" /\ change'[r].at = "wrong" => q.met # {q.current}
  /\ q.at = "set" /\ change'[r].at = "changed"
       => account'.password = q.next /\ ~account'.must

\* registerPasswordChange: whoever changes the password knew one that was in force
\* since they asked ("a borrowed token cannot lock them out"), whoever is told
\* theirs is wrong was not right all along, and a change that was confirmed is
\* in force. Of the three refusals it says nothing: see RightWhenSaid.
AnswersAreTrue == [][\A r \in Requests : Truthful(r)]_vars

\* server/password.go:90 answers a refused key with "A senha está certa": a
\* password that is called right was in force at some moment since it was sent.
\* The code does not keep it, for it says so of passwords that nobody checked.
RightWhenSaid ==
  [][\A r \in Requests :
       change[r].at = "verify" /\ change'[r].at = "misconfigured"
         => change[r].current \in change[r].met]_vars
=============================================================================
